---- MODULE Spec2Model ----
(***************************************************************************)
(* Anticip8: predictive prefetch middleware (sdk/anticip8_sdk) and its     *)
(* policy engine (core/app).                                               *)
(*                                                                         *)
(* Specifications in this module:                                          *)
(*   SpecBreaker  the circuit breaker (_Breaker) driven on its own         *)
(*   Spec         the ASGI middleware: real requests, their prefetch       *)
(*                batches and the speculative items of each batch          *)
(*   SpecTwoBatches  the batches of two requests served concurrently       *)
(*   SpecSession  requests of a user with a session window                 *)
(*   SpecNorm     norm_path applied once and twice to a path               *)
(*   SpecCore     the policy engine: ingest endpoints and policy_next      *)
(*   SpecCoreConfig  the same with prefetch attempts folded in or not      *)
(*   SpecCoreFault   the same with Redis reads that raise                  *)
(*   SpecChain    log_step of the chain log, visit after visit             *)
(*   SpecChainFault  the same with Redis failures inside log_step          *)
(*   SpecGrace    an accounting with a race grace, concurrent with the     *)
(*                speculative fetch of its key                             *)
(*   SpecTwoHits  two concurrent accountings after one speculation         *)
(*   SpecTargets  the targets of a batch and how each item fetches         *)
(*   SpecCoreRows    the same with any string as a similarity row          *)
(*   SpecCache    cache keys and the wrapper of cache_response             *)
(*   SpecWarm     an internal warmer of orders_api, then a real request    *)
(***************************************************************************)
EXTENDS Integers, Sequences, FiniteSets, TLC

(***************************************************************************)
(* Bounds of the model                                                     *)
(***************************************************************************)
\* the clock stops ticking here (one tick = 40 ms of the batch budget)
MaxTime == 3
\* real requests served by the middleware
NReq == 2
\* speculative items launched over the whole run
MaxItems == 2
\* KV (Redis) commands that fail over the whole run
MaxKvFaults == 1
\* number of report_error calls explored by SpecBreaker
MaxReports == 4
\* the clock of SpecBreaker stops ticking here
MaxBrkTime == 5
\* the longest path given to norm_path, in pieces
MaxPathLen == 4
\* calls of the ingest endpoints explored by SpecCore
MaxIngests == 2
\* visits of the user explored by SpecChain
MaxVisits == 5
\* the most route or query parameters of a cache key input
MaxParams == 2
\* the most candidates of a policy answer given to the target selection
MaxCands == 3

(***************************************************************************)
(* Breaker configurations explored by SpecBreaker: the constructor         *)
(* arguments (trip_errors, window_sec, cooloff_sec) of _Breaker.           *)
(***************************************************************************)
BreakerConfigs ==
    [trip_errors : 1..3, window_sec : 0..2, cooloff_sec : 1..2]

VARIABLES
    now,        \* time.time() / time.perf_counter(), in ticks
    breaker,    \* _Breaker: trip_errors, window_sec, cooloff_sec, _errs, _cooloff_until
    brkLog,     \* history: the times of the report_error calls (SpecBreaker)
    req,        \* the real requests: position in __call__ and its locals
    batch,      \* the _prefetch task of each request
    item,       \* the _prefetch_one tasks
    nItems,     \* number of _prefetch_one tasks created so far
    intent,     \* KV: keys with an anticip8:intent marker
    pf,         \* KV: keys with an anticip8:pf (prefetched) marker
    lock,       \* KV: anticip8:inflight key -> token (the owning item), 0 = absent
    debounce,   \* KV: source paths with an anticip8:policy_seen key
    sess,       \* KV: anticip8:sess window of the user
    sem,        \* free permits of prefetch_sem
    polCache,   \* _TTLCache: source path -> [exp, value]
    ctr,        \* the prometheus counters
    ingests,    \* history: ingest calls sent to the policy engine
    chainTasks, \* history: requests that created a log_step task
    kvFaults,   \* number of KV commands that failed so far
    env,        \* the environment of the run: [reqs, faults, budget, fine], fixed by Init
    nrm,        \* norm_path (SpecNorm): the path, norm_path of it, norm_path of that
    core,       \* the policy engine (SpecCore): its Redis hashes and its last answer
    chain,      \* the chain log (SpecChain): the visits and the Redis hashes of log_step
    cache,      \* the response cache (SpecCache): key inputs, the store, the wrapper
    tgt         \* the targets of one batch (SpecTargets): candidates, plan, fetches

brkVars == <<now, breaker, brkLog>>
kvVars  == <<intent, pf, lock, debounce, sess>>
\* what no step of the middleware changes
envVars == <<env, nrm, core, chain, cache, tgt>>
mwVars  == <<req, batch, item, nItems, sem, polCache, ctr, ingests, chainTasks, kvFaults,
            envVars>>
vars    == <<brkVars, kvVars, mwVars>>

(***************************************************************************)
(* _Breaker                                                                *)
(***************************************************************************)
\* _Breaker.__init__
NewBreaker(cfg) ==
    [trip_errors    |-> cfg.trip_errors,
     window_sec     |-> cfg.window_sec,
     cooloff_sec    |-> cfg.cooloff_sec,
     errs           |-> << >>,
     cooloff_until  |-> 0]

\* _Breaker.allow: time.time() >= self._cooloff_until
BreakerAllow(b, t) == t >= b.cooloff_until

\* seeded fault: a report that never forgets an old timestamp
KeepEverything(errs, cutoff) == errs

\* the list comprehension [t for t in self._errs if t >= cutoff]
KeepRecent(errs, cutoff) == SelectSeq(errs, LAMBDA e : e >= cutoff)

\* _Breaker.report_error at time t
BreakerReportError(b, t) ==
    LET cutoff == t - b.window_sec
        errs1  == Append(KeepRecent(b.errs, cutoff), t)
    IN  IF Len(errs1) >= b.trip_errors
        THEN [b EXCEPT !.cooloff_until = t + b.cooloff_sec, !.errs = << >>]
        ELSE [b EXCEPT !.errs = errs1]

(***************************************************************************)
(* Configuration of the middleware instance (constructor arguments and    *)
(* environment knobs), in ticks of 40 ms where it is a duration.           *)
(***************************************************************************)
\* ANTICIP8_PREFETCH_MAX_BATCH_INFLIGHT
MaxBatchInflight == 2
\* max_prefetch_concurrency: the permits of prefetch_sem
PrefetchMaxConcurrency == 1
\* ANTICIP8_RACE_GRACE_MAX_MS = 80
GraceMax == 2
\* ANTICIP8_PREFETCH_MIN_SCORE = 0.25, in hundredths
PrefetchMinScore == 25
\* ANTICIP8_PREFETCH_MIN_REMAIN_MS = 40
MinPrefetchRemain == 1
\* ANTICIP8_MIN_PREFETCH_WINDOW_SEC = 0.08
MinPrefetchWindow == 2
\* max_prefetch_time_ms = 120 of the policy answer
PolicyBudget == 3
\* default_prefetch_budget_ms = 250, used when the answer names no budget
DefaultPrefetchBudget == 6
\* max_prefetch = 2 of the policy answer
PolicyMaxPrefetch == 2
\* ANTICIP8_POLICY_CACHE_TTL_SEC, scaled to the horizon of the clock
PolicyCacheTtl == 2
\* prefetch_enabled
PrefetchEnabled == TRUE
\* the breaker the middleware constructs (ANTICIP8_BREAKER_*), scaled
MwBreakerConfig == [trip_errors |-> 2, window_sec |-> 2, cooloff_sec |-> 2]

\* service_name of this middleware instance
Self == "svc_s"
\* request paths of the wrapped application
Paths == {"/a", "/b"}
\* a path under SKIP_PREFIXES
NoisePath == "/health"
SKIP_PREFIXES == {"/health"}

Reqs  == 1..NReq
Items == 1..MaxItems
\* (dst_service, dst_req_key) of one user: the key of the intent / pf / inflight entries
Keys  == {Self} \X Paths
\* the speculation targets the policy engine may name
Targets == {<<Self, "/b">>}

\* what a client may send: path and the x-prefetch header
ReqInputs ==
    [path : Paths \cup {NoisePath}, xprefetch : {FALSE}]
        \cup {[path |-> "/b", xprefetch |-> TRUE]}

\* The runs explored: the client sends NReq requests and the KV never fails, or
\* it sends one request and up to MaxKvFaults KV commands fail. The client sends
\* a request once the previous one has been answered and the speculative work
\* it started has ended (Quiescent); the batch and the items of one request run
\* concurrently with each other and with the end of its response.
\* The policy engine is configured with PREFETCH_BUDGET_MS = 120 (PolicyBudget);
\* one request is also served with an engine whose budget is the minimum
\* prefetch window itself, and with one whose budget is below it.
\* time.perf_counter() never goes back, and two reads of it may or may not
\* differ: on a fine clock every read is later than the read before it (by
\* less than a tick), on a coarse one reads within a tick are equal.
Environments ==
    {[reqs |-> NReq, faults |-> 0, budget |-> PolicyBudget, fine |-> FALSE, grace |-> 0],
     [reqs |-> 1, faults |-> MaxKvFaults, budget |-> PolicyBudget, fine |-> FALSE, grace |-> 0],
     [reqs |-> 1, faults |-> 0, budget |-> MinPrefetchWindow, fine |-> FALSE, grace |-> 0],
     [reqs |-> 1, faults |-> 0, budget |-> MinPrefetchWindow, fine |-> TRUE, grace |-> 0],
     [reqs |-> 1, faults |-> 0, budget |-> MinPrefetchWindow - 1, fine |-> FALSE, grace |-> 0]}

NoSess == [svc |-> "none", path |-> "none"]
NoKey  == <<"none", "none">>

\* the answer get_policy returns when the call failed (client.py)
PolicyFallback == [next_paths |-> << >>, max_prefetch |-> 0, budget |-> 0]

\* answers of the policy engine: ranked targets, with no more targets than
\* item slots are left in the run; max_prefetch is the engine's MAX_PREFETCH or 0
PolicyAnswers(free) ==
    {[next_paths |-> np, max_prefetch |-> mp, budget |-> env.budget] :
        np \in {s \in UNION {[1..n -> Targets] : n \in 0..2} : Len(s) <= free},
        mp \in {0, PolicyMaxPrefetch}}

\* a batch that has no policy answer (yet)
NoAnswer == [next_paths |-> << >>, max_prefetch |-> -1, budget |-> -1]

NoPolicy == [exp |-> 0, value |-> PolicyFallback, set |-> FALSE]

CounterNames ==
    {"intent_missing", "intent_seen", "prefetch_mark_ready", "prefetch_mark_not_ready",
     "prefetch_hits", "prefetch_misses", "prefetch_dedup_skips",
     "prefetch_deadline_skips", "prefetch_total", "prefetch_budget_overrun",
     "policy_requests", "prefetch_errors"}

Bump(c, name) == [c EXCEPT ![name] = @ + 1]
BumpBy(c, name, n) == [c EXCEPT ![name] = @ + n]

NewReq ==
    [pc |-> "new", path |-> "none", xprefetch |-> FALSE, skipped |-> FALSE,
     prev |-> NoSess, status |-> 0, scheduled |-> FALSE,
     \* history of this request's accounting
     sawIntent |-> FALSE, sawPf |-> FALSE, disturbed |-> FALSE, outcome |-> "none",
     inc |-> [n \in CounterNames |-> 0], kvFailed |-> FALSE,
     acctAt |-> "none", dispatched |-> FALSE, batches |-> 0,
     \* the end of the race-grace sleep of the accounting
     wake |-> 0]

NewBatch ==
    [pc |-> "none", src |-> "none", deadline |-> 0, targets |-> << >>, idx |-> 0,
     pending |-> {}, why |-> "none",
     \* history: the breaker was open when the batch started; policy calls issued
     openAtGate |-> FALSE, policyCalls |-> 0,
     \* history: the policy call of the batch failed; the answer the batch planned
     \* with (from the engine or from the policy cache)
     policyFailed |-> FALSE, answer |-> NoAnswer,
     \* history: the batch went on to the policy lookup; its debounce SET raised
     lookup |-> FALSE, debounceFailed |-> FALSE]

NewItem ==
    [pc |-> "idle", batch |-> 0, key |-> NoKey, deadline |-> 0, token |-> "none",
     cancelReq |-> FALSE, why |-> "none", status |-> 0,
     \* history: a fetch was issued; the release script was issued; the task was
     \* cancelled; its lock ran out; the token the release script found under the key
     fetched |-> FALSE, released |-> FALSE, cancelled |-> FALSE, lost |-> FALSE,
     relSaw |-> 0]

\* the middleware before its first request
\* nothing of norm_path, of the policy engine or of the chain log has run
Unused == [pc |-> "none"]

MwIdle ==
    /\ req = [r \in Reqs |-> NewReq]
    /\ batch = [r \in Reqs |-> NewBatch]
    /\ item = [i \in Items |-> NewItem]
    /\ nItems = 0
    /\ intent = {}
    /\ pf = {}
    /\ lock = [k \in Keys |-> 0]
    /\ debounce = {}
    /\ sess = NoSess
    /\ sem = PrefetchMaxConcurrency
    /\ polCache = [p \in Paths |-> NoPolicy]
    /\ ctr = [n \in CounterNames |-> 0]
    /\ ingests = {}
    /\ chainTasks = {}
    /\ kvFaults = 0

MwInit ==
    /\ MwIdle
    /\ env \in Environments
    /\ nrm = Unused
    /\ core = Unused
    /\ chain = Unused
    /\ cache = Unused
    /\ tgt = Unused

\* a deployment whose middleware serves no request
Parked ==
    /\ now = 0
    /\ breaker = NewBreaker(MwBreakerConfig)
    /\ brkLog = << >>
    /\ MwIdle
    /\ env = [reqs |-> 0, faults |-> 0, budget |-> PolicyBudget, fine |-> FALSE, grace |-> 0]

(***************************************************************************)
(* KV faults: a Redis command may raise instead of answering.              *)
(***************************************************************************)
KvMayFail == kvFaults < env.faults

(***************************************************************************)
(* Anticip8Middleware.__call__                                             *)
(***************************************************************************)
\* path.startswith(SKIP_PREFIXES)
IsNoise(path) == path \in SKIP_PREFIXES

\* seeded fault: a skip rule that forgets the noise prefixes
SkipsHeaderOnly(path, xprefetch) == xprefetch

\* the skip rule: is_prefetch or path.startswith(SKIP_PREFIXES)
IsSkipped(path, xprefetch) == xprefetch \/ IsNoise(path)

\* _make_req_key in QUERY_MODE "ignore", under service_name
ReqKey(path) == <<Self, path>>

\* requests whose accounting is between its first read and its last write on key k
InAccounting(k) ==
    {r \in Reqs : req[r].pc \in {"acct_intent", "acct_pf", "acct_grace", "acct_del_hit",
                                  "acct_del_miss"}
                  /\ ReqKey(req[r].path) = k}

\* history: a write to the markers of k by somebody other than request r0
\* (r0 = 0: by a speculative item or a TTL) disturbs the accountings under way on k
Disturb(rq, k, r0) ==
    [r \in Reqs |-> IF r \in InAccounting(k) /\ r # r0
                    THEN [rq[r] EXCEPT !.disturbed = TRUE] ELSE rq[r]]

\* an exception leaves __call__: the handler is never invoked
ReqFault(r) ==
    /\ KvMayFail
    /\ kvFaults' = kvFaults + 1
    /\ req' = [req EXCEPT ![r].pc = "faulted", ![r].kvFailed = TRUE]
    /\ UNCHANGED envVars

\* request q has been answered (or has failed) and its speculative work has ended
Quiescent(q) ==
    /\ req[q].pc \in {"done", "faulted"}
    /\ batch[q].pc \in {"none", "done"}
    /\ \A i \in Items : item[i].batch = q => item[i].pc = "done"

\* the request enters __call__: skip rule, log_step task, first KV read issued
Arrive(r) ==
    /\ req[r].pc = "new"
    /\ r <= env.reqs
    /\ \A q \in Reqs : q < r => Quiescent(q)
    /\ \E inp \in ReqInputs :
        IF IsSkipped(inp.path, inp.xprefetch)
        THEN /\ req' = [req EXCEPT ![r].pc = "handler", ![r].path = inp.path,
                                   ![r].xprefetch = inp.xprefetch, ![r].skipped = TRUE,
                                   ![r].dispatched = TRUE]
             /\ UNCHANGED chainTasks
        ELSE /\ req' = [req EXCEPT ![r].pc = "acct_intent", ![r].path = inp.path,
                                   ![r].xprefetch = inp.xprefetch,
                                   ![r].sawIntent = ReqKey(inp.path) \in intent,
                                   ![r].sawPf = ReqKey(inp.path) \in pf]
             /\ chainTasks' = chainTasks \cup {r}
    /\ UNCHANGED <<brkVars, kvVars, batch, item, nItems, sem, polCache, ctr, ingests,
                   kvFaults>>
    /\ UNCHANGED envVars

\* seeded fault: an accounting that takes every request for an intended one
IntentAssumed(k) == TRUE

\* "intent is None" is false: the GET of the intent key found a marker
HasIntent(k) == k \in intent

\* _check_prefetch_hit: intent = await self.r.get(ik)
AcctIntent(r) ==
    /\ req[r].pc = "acct_intent"
    /\ \/ /\ ReqFault(r)
          /\ UNCHANGED ctr
       \/ /\ IF ~HasIntent(ReqKey(req[r].path))
             THEN /\ ctr' = Bump(ctr, "intent_missing")
                  /\ req' = [req EXCEPT ![r].pc = "sess_get", ![r].outcome = "NO_INTENT",
                                        ![r].acctAt = "intent",
                                        ![r].inc = Bump(@, "intent_missing")]
             ELSE /\ ctr' = Bump(ctr, "intent_seen")
                  /\ req' = [req EXCEPT ![r].pc = "acct_pf",
                                        ![r].inc = Bump(@, "intent_seen")]
          /\ UNCHANGED kvFaults
    /\ UNCHANGED <<brkVars, kvVars, batch, item, nItems, sem, polCache, ingests, chainTasks>>
    /\ UNCHANGED envVars

Min(a, b) == IF a <= b THEN a ELSE b
Max(a, b) == IF a >= b THEN a ELSE b

\* seeded fault: the sleep is as long as ANTICIP8_RACE_GRACE_MS says
GraceUncapped(grace, grace_max) == grace

\* grace_ms = min(grace_ms, grace_max_ms)
GraceSleep(grace, grace_max) == Min(grace, grace_max)

\* _check_prefetch_hit: has_pf = (await self.r.get(pk)) is not None; with
\* ANTICIP8_RACE_GRACE_MS > 0 a marker that is not there starts the grace sleep
AcctPf(r) ==
    /\ req[r].pc = "acct_pf"
    /\ \/ /\ ReqFault(r)
          /\ UNCHANGED ctr
       \/ /\ IF ReqKey(req[r].path) \in pf
             THEN /\ ctr' = Bump(Bump(ctr, "prefetch_mark_ready"), "prefetch_hits")
                  /\ req' = [req EXCEPT ![r].pc = "acct_del_hit", ![r].outcome = "HIT",
                                 ![r].inc = Bump(Bump(@, "prefetch_mark_ready"), "prefetch_hits")]
             ELSE IF env.grace > 0
             THEN /\ ctr' = Bump(ctr, "prefetch_mark_not_ready")
                  /\ req' = [req EXCEPT ![r].pc = "acct_grace",
                                 ![r].wake = now + GraceSleep(env.grace, GraceMax),
                                 ![r].inc = Bump(@, "prefetch_mark_not_ready")]
             ELSE /\ ctr' = Bump(Bump(ctr, "prefetch_mark_not_ready"), "prefetch_misses")
                  /\ req' = [req EXCEPT ![r].pc = "acct_del_miss", ![r].outcome = "MISS",
                                 ![r].inc = Bump(Bump(@, "prefetch_mark_not_ready"), "prefetch_misses")]
          /\ UNCHANGED kvFaults
    /\ UNCHANGED <<brkVars, kvVars, batch, item, nItems, sem, polCache, ingests, chainTasks>>
    /\ UNCHANGED envVars

\* seeded fault: the HIT_RACE branch without its return, falling through to
\* the miss counter
GraceVerdictFallsThrough(has_pf_after) ==
    IF has_pf_after
    THEN [outcome |-> "HIT_RACE", pc |-> "acct_del_hit",
          counters |-> {"prefetch_hits", "prefetch_misses"}]
    ELSE [outcome |-> "MISS", pc |-> "acct_del_miss", counters |-> {"prefetch_misses"}]

\* "if has_pf_after: ... prefetch_hits.inc() ... return" and, past the grace
\* block, "prefetch_misses.inc()"
GraceVerdict(has_pf_after) ==
    IF has_pf_after
    THEN [outcome |-> "HIT_RACE", pc |-> "acct_del_hit", counters |-> {"prefetch_hits"}]
    ELSE [outcome |-> "MISS", pc |-> "acct_del_miss", counters |-> {"prefetch_misses"}]

\* c with each of the counters in names one higher
BumpEach(c, names) == [n \in DOMAIN c |-> IF n \in names THEN c[n] + 1 ELSE c[n]]

\* _check_prefetch_hit after "await asyncio.sleep(grace_ms / 1000.0)":
\* has_pf_after = (await self.r.get(pk)) is not None
AcctGrace(r) ==
    /\ req[r].pc = "acct_grace"
    /\ now >= req[r].wake
    /\ \/ /\ ReqFault(r)
          /\ UNCHANGED ctr
       \/ /\ LET v == GraceVerdict(ReqKey(req[r].path) \in pf)
             IN  /\ ctr' = BumpEach(ctr, v.counters)
                 /\ req' = [req EXCEPT ![r].pc = v.pc, ![r].outcome = v.outcome,
                                       ![r].wake = 0,
                                       ![r].inc = BumpEach(@, v.counters)]
          /\ UNCHANGED kvFaults
    /\ UNCHANGED <<brkVars, kvVars, batch, item, nItems, sem, polCache, ingests, chainTasks>>
    /\ UNCHANGED envVars

\* seeded fault: a HIT that leaves the prefetched marker behind
HitDeletesIntentOnly(k) == [intent |-> intent \ {k}, pf |-> pf]

\* the markers after the HIT pipeline: pipe.delete(pk); pipe.delete(ik)
HitDeletes(k) == [intent |-> intent \ {k}, pf |-> pf \ {k}]

\* the markers after the MISS delete: await self.r.delete(ik)
MissDeletes(k) == [intent |-> intent \ {k}, pf |-> pf]

\* _check_prefetch_hit: the deletes that end a HIT or a MISS
AcctDelete(r) ==
    /\ req[r].pc \in {"acct_del_hit", "acct_del_miss"}
    /\ \/ /\ ReqFault(r)
          /\ UNCHANGED <<intent, pf>>
       \/ LET k == ReqKey(req[r].path)
              m == IF req[r].pc = "acct_del_hit" THEN HitDeletes(k) ELSE MissDeletes(k)
          IN  /\ intent' = m.intent
              /\ pf' = m.pf
              /\ req' = [Disturb(req, k, r) EXCEPT ![r].pc = "sess_get",
                                                    ![r].acctAt = "delete"]
              /\ UNCHANGED kvFaults
    /\ UNCHANGED <<brkVars, lock, debounce, sess, batch, item, nItems, sem, polCache, ctr,
                   ingests, chainTasks>>
    /\ UNCHANGED envVars

\* _get_prev_and_set_current: raw = await self.r.get(key)
SessGet(r) ==
    /\ req[r].pc = "sess_get"
    /\ \/ ReqFault(r)
       \/ /\ req' = [req EXCEPT ![r].pc = "sess_set", ![r].prev = sess]
          /\ UNCHANGED kvFaults
    /\ UNCHANGED <<brkVars, kvVars, batch, item, nItems, sem, polCache, ctr, ingests,
                   chainTasks>>
    /\ UNCHANGED envVars

\* _get_prev_and_set_current: await self.r.setex(key, ...); then self.app is awaited
SessSet(r) ==
    /\ req[r].pc = "sess_set"
    /\ \/ /\ ReqFault(r)
          /\ UNCHANGED sess
       \/ /\ sess' = [svc |-> Self, path |-> req[r].path]
          /\ req' = [req EXCEPT ![r].pc = "handler", ![r].dispatched = TRUE]
          /\ UNCHANGED kvFaults
    /\ UNCHANGED <<brkVars, intent, pf, lock, debounce, batch, item, nItems, sem, polCache,
                   ctr, ingests, chainTasks>>
    /\ UNCHANGED envVars

\* send_wrapper: whether http.response.start creates the _prefetch task
SchedulesBatch(rq, status) ==
    PrefetchEnabled /\ status < 400 /\ ~rq.scheduled /\ ~rq.skipped

\* the handler emits http.response.start (through send_wrapper unless skipped)
HandlerStart(r) ==
    /\ req[r].pc = "handler"
    /\ \E status \in {200, 500} :
        IF SchedulesBatch(req[r], status)
        THEN /\ req' = [req EXCEPT ![r].pc = "started", ![r].status = status,
                                   ![r].scheduled = TRUE, ![r].batches = @ + 1]
             /\ batch' = [batch EXCEPT ![r].pc = "gate", ![r].src = req[r].path]
        ELSE /\ req' = [req EXCEPT ![r].pc = "started", ![r].status = status]
             /\ UNCHANGED batch
    /\ UNCHANGED <<brkVars, kvVars, item, nItems, sem, polCache, ctr, ingests, chainTasks,
                   kvFaults>>
    /\ UNCHANGED envVars

\* send_wrapper after the final http.response.body: the ingest of prev -> current
BodyIngests(r, rq) ==
    IF rq.skipped \/ rq.prev.path = "none" \/ rq.prev.path = rq.path
    THEN {}
    ELSE {[kind |-> IF rq.prev.svc # Self THEN "edge" ELSE "event", by |-> <<"req", r>>,
           from |-> <<rq.prev.svc, rq.prev.path>>, to |-> <<Self, rq.path>>]}

\* seeded fault: a response that waits for the batch of its request
HandlerBodyAfterBatch(r) ==
    /\ req[r].pc = "started"
    /\ batch[r].pc \in {"none", "done"}
    /\ req' = [req EXCEPT ![r].pc = "done"]
    /\ ingests' = ingests \cup BodyIngests(r, req[r])
    /\ UNCHANGED <<brkVars, kvVars, batch, item, nItems, sem, polCache, ctr, chainTasks,
                   kvFaults>>
    /\ UNCHANGED envVars

\* the handler emits its final http.response.body
HandlerBody(r) ==
    /\ req[r].pc = "started"
    /\ req' = [req EXCEPT ![r].pc = "done"]
    /\ ingests' = ingests \cup BodyIngests(r, req[r])
    /\ UNCHANGED <<brkVars, kvVars, batch, item, nItems, sem, polCache, ctr, chainTasks,
                   kvFaults>>
    /\ UNCHANGED envVars

(***************************************************************************)
(* Anticip8Middleware._prefetch: the batch of one request                  *)
(***************************************************************************)

\* the task has returned: its locals are gone
BatchDone(bt, why) ==
    [bt EXCEPT !.pc = "done", !.why = why, !.deadline = 0, !.targets = << >>, !.idx = 0,
               !.pending = {}]

\* after the for loop: "if pending:" waits for the rest, else the batch returns
AfterLoop(bt) ==
    IF bt.pending # {} THEN [bt EXCEPT !.pc = "wait"] ELSE BatchDone(bt, "Launched")

\* asyncio.create_task(self._prefetch_one(...)) for target number idx + 1. The new
\* task runs at once up to its first await: the DeadlineEnter check, then the
\* SET NX of _acquire_inflight is issued.
Launch(b, bt, its, i) ==
    LET it == [NewItem EXCEPT !.batch = b, !.key = bt.targets[bt.idx + 1],
                              !.deadline = bt.deadline]
    IN  [its EXCEPT ![i] = IF now >= bt.deadline
                           THEN [it EXCEPT !.pc = "done", !.why = "DeadlineEnter",
                                           !.deadline = 0]
                           ELSE [it EXCEPT !.pc = "acquire"]]

\* "(deadline - time.perf_counter()) < limit": the read is later than the read
\* that set the deadline, by whole ticks and, on a fine clock, a little more
Short(deadline, limit) ==
    IF env.fine THEN deadline - now <= limit ELSE deadline - now < limit

\* "for item in targets:" from target idx + 1 on, up to the next suspension
\* (asyncio.wait FIRST_COMPLETED when max_batch_inflight tasks are pending)
RECURSIVE DispatchLoop(_, _, _, _, _)
DispatchLoop(b, bt, its, n, c) ==
    IF bt.idx >= Len(bt.targets)
    THEN [batch |-> AfterLoop(bt), item |-> its, nItems |-> n, ctr |-> c]
    ELSE IF Short(bt.deadline, MinPrefetchRemain)
    THEN [batch |-> AfterLoop(bt), item |-> its, nItems |-> n,
          ctr |-> Bump(c, "prefetch_deadline_skips")]
    ELSE LET i   == n + 1
             bt1 == [bt EXCEPT !.idx = @ + 1, !.pending = @ \cup {i}]
             its1 == Launch(b, bt, its, i)
             c1  == IF now >= bt.deadline THEN Bump(c, "prefetch_deadline_skips") ELSE c
         IN  IF Cardinality(bt1.pending) >= Max(1, MaxBatchInflight)
             THEN [batch |-> [bt1 EXCEPT !.pc = "loopwait"], item |-> its1,
                   nItems |-> i, ctr |-> c1]
             ELSE DispatchLoop(b, bt1, its1, i, c1)

\* seeded fault: a plan that dispatches every candidate, whatever max_prefetch says
PlanEveryCandidate(b, bt, pol, c) ==
    DispatchLoop(b, [bt EXCEPT !.deadline = now + DefaultPrefetchBudget, !.idx = 0,
                               !.targets = pol.next_paths],
                 item, nItems, c)

\* seeded fault: a plan without the two "too late" checks
PlanWithoutWindow(b, bt, pol, c) ==
    IF pol.max_prefetch <= 0 \/ pol.next_paths = << >>
    THEN [batch |-> BatchDone(bt, "NoTargets"), item |-> item, nItems |-> nItems, ctr |-> c]
    ELSE DispatchLoop(b,
             [bt EXCEPT !.deadline = now + (IF pol.budget # 0 THEN pol.budget
                                            ELSE DefaultPrefetchBudget),
                        !.idx = 0,
                        !.targets = SubSeq(pol.next_paths, 1,
                                           Min(pol.max_prefetch, Len(pol.next_paths)))],
             item, nItems, c)

\* _prefetch from the policy answer on: max_prefetch / candidates, budget and
\* deadline, the two "too late" checks, the cap, then the dispatch loop
Plan(b, bt, pol, c) ==
    IF pol.max_prefetch <= 0 \/ pol.next_paths = << >>
    THEN [batch |-> BatchDone(bt, "NoTargets"), item |-> item, nItems |-> nItems, ctr |-> c]
    ELSE LET budget   == IF pol.budget # 0 THEN pol.budget ELSE DefaultPrefetchBudget
             deadline == now + budget
         IN  IF Short(deadline, MinPrefetchRemain) \/ Short(deadline, MinPrefetchWindow)
             THEN [batch |-> BatchDone(bt, "TooLate"), item |-> item, nItems |-> nItems,
                   ctr |-> Bump(c, "prefetch_deadline_skips")]
             ELSE DispatchLoop(b,
                      [bt EXCEPT !.deadline = deadline, !.idx = 0,
                                 !.targets = SubSeq(pol.next_paths, 1,
                                                    Min(pol.max_prefetch, Len(pol.next_paths)))],
                      item, nItems, c)

\* the model has item slots left for every target of the answer
FitsSlots(pol) == Len(pol.next_paths) <= MaxItems - nItems

\* seeded fault: a gate that never looks at the breaker
GateAlwaysOpen(b, t) == TRUE

\* the breaker gate: "if not await self.breaker.allow(): return"
GateOpen(b, t) == BreakerAllow(b, t)

\* _prefetch starts: the breaker gate
BatchGate(b) ==
    /\ batch[b].pc = "gate"
    /\ IF GateOpen(breaker, now)
       THEN batch' = [batch EXCEPT ![b].pc = "debounce",
                                   ![b].openAtGate = ~BreakerAllow(breaker, now)]
       ELSE batch' = [batch EXCEPT ![b] = [BatchDone(@, "Breaker") EXCEPT
                                              !.openAtGate = ~BreakerAllow(breaker, now)]]
    /\ UNCHANGED <<brkVars, kvVars, req, item, nItems, sem, polCache, ctr, ingests,
                   chainTasks, kvFaults>>
    /\ UNCHANGED envVars

\* _TTLCache.get
PolicyCacheGet(p) ==
    IF polCache[p].set /\ polCache[p].exp > now THEN polCache[p] ELSE NoPolicy

\* _TTLCache.set
PolicyCacheSet(p, value) ==
    [polCache EXCEPT ![p] = [exp |-> now + PolicyCacheTtl, value |-> value, set |-> TRUE]]

\* after the debounce: the policy cache lookup; a hit plans the batch at once,
\* a miss issues the policy call
AfterDebounce(b, setFailed) ==
    LET hit == PolicyCacheGet(batch[b].src)
        bt  == [batch[b] EXCEPT !.lookup = TRUE, !.debounceFailed = setFailed]
    IN  IF hit.set
        THEN /\ FitsSlots(hit.value)
             /\ LET nx == Plan(b, [bt EXCEPT !.answer = hit.value], hit.value, ctr)
                IN  /\ batch' = [batch EXCEPT ![b] = nx.batch]
                    /\ item' = nx.item
                    /\ nItems' = nx.nItems
                    /\ ctr' = nx.ctr
        ELSE /\ batch' = [batch EXCEPT ![b] = [bt EXCEPT !.pc = "policy",
                                                         !.policyCalls = @ + 1]]
             /\ ctr' = Bump(ctr, "policy_requests")
             /\ UNCHANGED <<item, nItems>>

\* seeded fault: a debounce SET without NX
DebounceSetStoresAlways(db, p) == TRUE

\* self.r.set(dk, "1", nx=True, px=px): whether the command stores the key
DebounceSetNxStores(db, p) == p \notin db

\* the policy debounce: ok = await self.r.set(dk, "1", nx=True, px=px)
BatchDebounce(b) ==
    /\ batch[b].pc = "debounce"
    /\ \/ /\ KvMayFail                   \* except Exception: pass
          /\ kvFaults' = kvFaults + 1
          /\ UNCHANGED debounce
          /\ AfterDebounce(b, TRUE)
       \/ /\ ~DebounceSetNxStores(debounce, batch[b].src)
          /\ batch' = [batch EXCEPT ![b] = BatchDone(@, "Debounce")]
          /\ UNCHANGED <<debounce, item, nItems, ctr, kvFaults>>
       \/ /\ DebounceSetNxStores(debounce, batch[b].src)
          /\ debounce' = debounce \cup {batch[b].src}
          /\ AfterDebounce(b, FALSE)
          /\ UNCHANGED kvFaults
    /\ UNCHANGED <<brkVars, intent, pf, lock, sess, req, sem, polCache, ingests, chainTasks>>
    /\ UNCHANGED envVars

\* pol = await self.client.get_policy(...): an answer, or the fallback that
\* get_policy returns when the call failed; then policy_cache.set and the plan
BatchPolicy(b) ==
    /\ batch[b].pc = "policy"
    /\ \E failed \in BOOLEAN :
       \E pol \in IF failed THEN {PolicyFallback} ELSE PolicyAnswers(MaxItems - nItems) :
        LET nx == Plan(b, [batch[b] EXCEPT !.policyFailed = failed, !.answer = pol],
                       pol, ctr)
        IN  /\ polCache' = PolicyCacheSet(batch[b].src, pol)
            /\ batch' = [batch EXCEPT ![b] = nx.batch]
            /\ item' = nx.item
            /\ nItems' = nx.nItems
            /\ ctr' = nx.ctr
    /\ UNCHANGED <<brkVars, kvVars, req, sem, ingests, chainTasks, kvFaults>>
    /\ UNCHANGED envVars

DoneItems(b) == {i \in batch[b].pending : item[i].pc = "done"}

\* asyncio.wait(pending, return_when=FIRST_COMPLETED) returns; the loop goes on
BatchLoopWake(b) ==
    /\ batch[b].pc = "loopwait"
    /\ DoneItems(b) # {}
    /\ LET nx == DispatchLoop(b, [batch[b] EXCEPT !.pending = @ \ DoneItems(b)],
                              item, nItems, ctr)
       IN  /\ batch' = [batch EXCEPT ![b] = nx.batch]
           /\ item' = nx.item
           /\ nItems' = nx.nItems
           /\ ctr' = nx.ctr
    /\ UNCHANGED <<brkVars, kvVars, req, sem, polCache, ingests, chainTasks, kvFaults>>
    /\ UNCHANGED envVars

\* asyncio.wait(pending, timeout=...) returns with every task done
BatchWaitAll(b) ==
    /\ batch[b].pc = "wait"
    /\ DoneItems(b) = batch[b].pending
    /\ batch' = [batch EXCEPT ![b] = BatchDone(@, "AllDone")]
    /\ UNCHANGED <<brkVars, kvVars, req, item, nItems, sem, polCache, ctr, ingests,
                   chainTasks, kvFaults>>
    /\ UNCHANGED envVars

\* asyncio.wait(pending, timeout=...) times out: t.cancel() for every task not done
BatchWaitTimeout(b) ==
    /\ batch[b].pc = "wait"
    /\ now >= batch[b].deadline
    /\ LET notDone == batch[b].pending \ DoneItems(b)
       IN  /\ notDone # {}
           /\ item' = [i \in Items |-> IF i \in notDone
                                       THEN [item[i] EXCEPT !.cancelReq = TRUE]
                                       ELSE item[i]]
           /\ ctr' = BumpBy(Bump(ctr, "prefetch_budget_overrun"),
                            "prefetch_deadline_skips", Cardinality(notDone))
           /\ batch' = [batch EXCEPT ![b] = BatchDone(@, "Overrun")]
    /\ UNCHANGED <<brkVars, kvVars, req, nItems, sem, polCache, ingests, chainTasks, kvFaults>>
    /\ UNCHANGED envVars

(***************************************************************************)
(* Anticip8Middleware._prefetch_one: one speculative item                  *)
(***************************************************************************)
Running(i) == item[i].pc \notin {"idle", "done"} /\ ~item[i].cancelReq

\* the task has returned: its locals are gone
ItemDone(it, why) == [it EXCEPT !.pc = "done", !.why = why, !.deadline = 0]

\* seeded fault: a SET without NX
SetStoresAlways(lk, k) == TRUE

\* self.r.set(k, token, nx=True, px=...): whether the command stores the token
SetNxStores(lk, k) == lk[k] = 0

\* _acquire_inflight returns: the token, None (dedup), or the token on a KV error
ItemAcquire(i) ==
    /\ Running(i) /\ item[i].pc = "acquire"
    /\ \/ /\ KvMayFail                   \* except Exception: return token
          /\ kvFaults' = kvFaults + 1
          /\ item' = [item EXCEPT ![i].pc = "intent", ![i].token = "failopen"]
          /\ UNCHANGED <<lock, ctr>>
       \/ /\ SetNxStores(lock, item[i].key)
          /\ lock' = [lock EXCEPT ![item[i].key] = i]
          /\ item' = [item EXCEPT ![i].pc = "intent", ![i].token = "held"]
          /\ UNCHANGED <<ctr, kvFaults>>
       \/ /\ ~SetNxStores(lock, item[i].key)
          /\ item' = [item EXCEPT ![i] = ItemDone(@, "Dedup")]
          /\ ctr' = Bump(ctr, "prefetch_dedup_skips")
          /\ UNCHANGED <<lock, kvFaults>>
    /\ UNCHANGED <<brkVars, intent, pf, debounce, sess, req, batch, nItems, sem, polCache,
                   ingests, chainTasks>>
    /\ UNCHANGED envVars

\* seeded fault: inside the semaphore only "now >= deadline" is checked
EnterSemWithoutWindow(it, c) ==
    IF now >= it.deadline
    THEN [item |-> [it EXCEPT !.pc = "release", !.why = "DeadlineInsideSem"], sem |-> sem,
          ctr |-> Bump(c, "prefetch_deadline_skips")]
    ELSE [item |-> [it EXCEPT !.pc = "fetch", !.fetched = TRUE], sem |-> sem - 1,
          ctr |-> Bump(c, "prefetch_total")]

\* inside "async with self.prefetch_sem": the two deadline checks, then the fetch starts
EnterSem(it, c) ==
    IF now >= it.deadline
    THEN [item |-> [it EXCEPT !.pc = "release", !.why = "DeadlineInsideSem"], sem |-> sem,
          ctr |-> Bump(c, "prefetch_deadline_skips")]
    ELSE IF Short(it.deadline, MinPrefetchWindow)
    THEN [item |-> [it EXCEPT !.pc = "release", !.why = "DeadlineTooClose"], sem |-> sem,
          ctr |-> Bump(c, "prefetch_deadline_skips")]
    ELSE [item |-> [it EXCEPT !.pc = "fetch", !.fetched = TRUE], sem |-> sem - 1,
          ctr |-> Bump(c, "prefetch_total")]

\* seeded fault: the semaphore is entered whether or not a permit is free
AfterIntentWithoutPermit(it, c) ==
    IF now >= it.deadline
    THEN [item |-> [it EXCEPT !.pc = "release", !.why = "DeadlineBeforeSem"], sem |-> sem,
          ctr |-> Bump(c, "prefetch_deadline_skips")]
    ELSE EnterSem(it, c)

\* after the intent setex: the deadline check before the semaphore, then the semaphore
AfterIntent(it, c) ==
    IF now >= it.deadline
    THEN [item |-> [it EXCEPT !.pc = "release", !.why = "DeadlineBeforeSem"], sem |-> sem,
          ctr |-> Bump(c, "prefetch_deadline_skips")]
    ELSE IF sem > 0 THEN EnterSem(it, c)
    ELSE [item |-> [it EXCEPT !.pc = "sem"], sem |-> sem, ctr |-> c]

\* await self.r.setex(_intent_key(...)) returns (or raises, which is swallowed)
ItemIntent(i) ==
    /\ Running(i) /\ item[i].pc = "intent"
    /\ \/ /\ KvMayFail
          /\ kvFaults' = kvFaults + 1
          /\ UNCHANGED <<intent, req>>
       \/ /\ intent' = intent \cup {item[i].key}
          /\ req' = Disturb(req, item[i].key, 0)
          /\ UNCHANGED kvFaults
    /\ LET nx == AfterIntent(item[i], ctr)
       IN  /\ item' = [item EXCEPT ![i] = nx.item]
           /\ sem' = nx.sem
           /\ ctr' = nx.ctr
    /\ UNCHANGED <<brkVars, pf, lock, debounce, sess, batch, nItems, polCache, ingests,
                   chainTasks>>
    /\ UNCHANGED envVars

\* a permit of prefetch_sem is granted to a waiting item
ItemSem(i) ==
    /\ Running(i) /\ item[i].pc = "sem"
    /\ sem > 0
    /\ LET nx == EnterSem(item[i], ctr)
       IN  /\ item' = [item EXCEPT ![i] = nx.item]
           /\ sem' = nx.sem
           /\ ctr' = nx.ctr
    /\ UNCHANGED <<brkVars, kvVars, req, batch, nItems, polCache, ingests, chainTasks,
                   kvFaults>>
    /\ UNCHANGED envVars

\* seeded fault: a mark test without the lower bound
MarksBelow400(status) == status < 400

\* the mark is set "if 200 <= status < 400"
MarksPrefetched(status) == 200 <= status /\ status < 400

\* the HTTP GET / internal warmer returns: a status, or 0 after an error
ItemFetch(i) ==
    /\ Running(i) /\ item[i].pc = "fetch"
    /\ \E status \in {0, 200, 404} :
        /\ IF status = 0
           THEN /\ breaker' = BreakerReportError(breaker, now)
                /\ ctr' = Bump(ctr, "prefetch_errors")
           ELSE UNCHANGED <<breaker, ctr>>
        /\ IF MarksPrefetched(status)
           THEN /\ item' = [item EXCEPT ![i].pc = "mark", ![i].status = status]
                /\ UNCHANGED sem
           ELSE /\ item' = [item EXCEPT ![i].pc = "release", ![i].status = status,
                                        ![i].why = IF status = 0 THEN "Error" ELSE "NoStatus"]
                /\ sem' = sem + 1
    /\ UNCHANGED <<now, brkLog, kvVars, req, batch, nItems, polCache, ingests,
                   chainTasks, kvFaults>>
    /\ UNCHANGED envVars

\* setex of the prefetched marker (errors swallowed), ingest_prefetch, the permit
\* is returned, and the finally block is entered
ItemMark(i) ==
    /\ Running(i) /\ item[i].pc = "mark"
    /\ \/ /\ KvMayFail
          /\ kvFaults' = kvFaults + 1
          /\ UNCHANGED <<pf, req>>
       \/ /\ pf' = pf \cup {item[i].key}
          /\ req' = Disturb(req, item[i].key, 0)
          /\ UNCHANGED kvFaults
    /\ ingests' = ingests \cup {[kind |-> "prefetch", by |-> <<"item", i>>,
                                 from |-> <<Self, batch[item[i].batch].src>>,
                                 to |-> item[i].key]}
    /\ item' = [item EXCEPT ![i].pc = "release", ![i].why = "OK"]
    /\ sem' = sem + 1
    /\ UNCHANGED <<brkVars, intent, lock, debounce, sess, batch, nItems, polCache, ctr,
                   chainTasks>>
    /\ UNCHANGED envVars

\* seeded fault: a plain DEL
ReleasePlainDel(lk, k, token) == [lk EXCEPT ![k] = 0]

\* the Lua script of _release_inflight: delete the key only if it holds the token
ReleaseScript(lk, k, token) == IF lk[k] = token THEN [lk EXCEPT ![k] = 0] ELSE lk

\* finally: await self._release_inflight(...) (errors swallowed)
ItemRelease(i) ==
    /\ Running(i) /\ item[i].pc = "release"
    /\ \/ /\ KvMayFail
          /\ kvFaults' = kvFaults + 1
          /\ item' = [item EXCEPT ![i] = [ItemDone(@, item[i].why) EXCEPT
                                             !.released = TRUE]]
          /\ UNCHANGED lock
       \/ /\ lock' = ReleaseScript(lock, item[i].key, i)
          /\ item' = [item EXCEPT ![i] = [ItemDone(@, item[i].why) EXCEPT
                                             !.released = TRUE,
                                             !.relSaw = lock[item[i].key]]]
          /\ UNCHANGED kvFaults
    /\ UNCHANGED <<brkVars, intent, pf, debounce, sess, req, batch, nItems, sem, polCache,
                   ctr, ingests, chainTasks>>
    /\ UNCHANGED envVars

\* CancelledError is thrown into the task at the await it is suspended in. The
\* command in flight may or may not have reached the KV (applied).
ItemCancelled(i) ==
    /\ item[i].cancelReq
    /\ LET it == [item[i] EXCEPT !.cancelReq = FALSE, !.cancelled = TRUE]
           k  == item[i].key
       IN  \E applied \in BOOLEAN :
           CASE it.pc = "acquire" ->        \* raised out of _acquire_inflight: no token
                   /\ item' = [item EXCEPT ![i] = ItemDone(it, "Cancelled")]
                   /\ lock' = IF applied /\ SetNxStores(lock, k)
                              THEN [lock EXCEPT ![k] = i] ELSE lock
                   /\ UNCHANGED <<intent, pf, debounce, sess, sem, req>>
             [] it.pc = "intent" ->         \* outside the try / finally
                   /\ item' = [item EXCEPT ![i] = ItemDone(it, "Cancelled")]
                   /\ intent' = IF applied THEN intent \cup {k} ELSE intent
                   /\ req' = IF applied THEN Disturb(req, k, 0) ELSE req
                   /\ UNCHANGED <<pf, lock, debounce, sess, sem>>
             [] it.pc = "sem" ->            \* inside the try: the finally block runs
                   /\ ~applied
                   /\ item' = [item EXCEPT ![i] = [it EXCEPT !.pc = "release",
                                                             !.why = "Cancelled"]]
                   /\ UNCHANGED <<kvVars, sem, req>>
             [] it.pc = "fetch" ->
                   /\ ~applied
                   /\ item' = [item EXCEPT ![i] = [it EXCEPT !.pc = "release",
                                                             !.why = "Cancelled"]]
                   /\ sem' = sem + 1
                   /\ UNCHANGED <<kvVars, req>>
             [] it.pc = "mark" ->
                   /\ item' = [item EXCEPT ![i] = [it EXCEPT !.pc = "release",
                                                             !.why = "Cancelled"]]
                   /\ pf' = IF applied THEN pf \cup {k} ELSE pf
                   /\ req' = IF applied THEN Disturb(req, k, 0) ELSE req
                   /\ sem' = sem + 1
                   /\ UNCHANGED <<intent, lock, debounce, sess>>
             [] it.pc = "release" ->        \* cancelled inside the finally block
                   /\ item' = [item EXCEPT ![i] = [ItemDone(it, "Cancelled") EXCEPT
                                                      !.released = TRUE,
                                                      !.relSaw = IF applied THEN lock[k] ELSE 0]]
                   /\ lock' = IF applied THEN ReleaseScript(lock, k, i) ELSE lock
                   /\ UNCHANGED <<intent, pf, debounce, sess, sem, req>>
    /\ UNCHANGED <<brkVars, batch, nItems, polCache, ctr, ingests, chainTasks, kvFaults>>
    /\ UNCHANGED envVars

(***************************************************************************)
(* The KV's TTLs and the clock                                             *)
(***************************************************************************)
\* The clock is exact up to MaxTime and stands for "MaxTime or later" from then
\* on. The TTL of the inflight key (at least 0.34 s) is longer than the batch
\* budget, so it runs out only in that open end. The run stays within
\* intent_ttl_sec and prefetch_mark_ttl_sec (45 s and 60 s): the markers do not
\* expire.
LongAfter == now = MaxTime

\* the px of the inflight key runs out
ExpireLock(k) ==
    /\ LongAfter
    /\ lock[k] # 0
    /\ lock' = [lock EXCEPT ![k] = 0]
    /\ item' = [item EXCEPT ![lock[k]].lost = TRUE]
    /\ UNCHANGED <<brkVars, intent, pf, debounce, sess, req, batch, nItems, sem, polCache,
                   ctr, ingests, chainTasks, kvFaults>>
    /\ UNCHANGED envVars

\* something in the state still reads the clock: a deadline, the breaker, the policy cache
ClockRead ==
    \/ \E b \in Reqs : batch[b].pc \in {"loopwait", "wait"} /\ batch[b].deadline > now
    \/ \E i \in Items : item[i].pc \notin {"idle", "done"} /\ item[i].deadline > now
    \/ \E r \in Reqs : req[r].pc = "acct_grace" /\ req[r].wake > now
    \/ breaker.cooloff_until > now
    \/ \E n \in 1..Len(breaker.errs) : breaker.errs[n] + breaker.window_sec >= now
    \/ \E p \in Paths : polCache[p].set /\ polCache[p].exp > now

\* time passes
Tick ==
    /\ now < MaxTime
    /\ ClockRead
    /\ now' = now + 1
    /\ UNCHANGED <<breaker, brkLog, kvVars, mwVars>>

(***************************************************************************)
(* Spec: the middleware                                                    *)
(***************************************************************************)
Init ==
    /\ now = 0
    /\ breaker = NewBreaker(MwBreakerConfig)
    /\ brkLog = << >>
    /\ MwInit

Next ==
    \/ \E r \in Reqs :
          \/ Arrive(r) \/ AcctIntent(r) \/ AcctPf(r) \/ AcctDelete(r)
          \/ SessGet(r) \/ SessSet(r) \/ HandlerStart(r) \/ HandlerBody(r)
    \/ \E b \in Reqs :
          \/ BatchGate(b) \/ BatchDebounce(b) \/ BatchPolicy(b)
          \/ BatchLoopWake(b) \/ BatchWaitAll(b) \/ BatchWaitTimeout(b)
    \/ \E i \in Items :
          \/ ItemAcquire(i) \/ ItemIntent(i) \/ ItemSem(i)
          \/ ItemFetch(i) \/ ItemMark(i) \/ ItemRelease(i) \/ ItemCancelled(i)
    \/ \E k \in Keys : ExpireLock(k)
    \/ Tick

Spec == Init /\ [][Next]_vars

(***************************************************************************)
(* SpecTwoBatches: the requests of one user were served concurrently, all  *)
(* found no intent marker and all were answered with status 200, so their  *)
(* _prefetch tasks exist side by side. The first request was for /a, the   *)
(* others for /a or for /b and wrote the session window last. In the runs  *)
(* with two requests for /a the KV never fails or up to MaxKvFaults of its *)
(* commands fail; with a request for /a and one for /b it never fails.     *)
(***************************************************************************)
TwoBatchesInit ==
    /\ now = 0
    /\ breaker = NewBreaker(MwBreakerConfig)
    /\ brkLog = << >>
    /\ \E s \in {[p2 |-> "/a", faults |-> 0], [p2 |-> "/a", faults |-> MaxKvFaults],
                  [p2 |-> "/b", faults |-> 0]} :
        LET answered(path, prev) ==
                [NewReq EXCEPT !.pc = "done", !.path = path, !.prev = prev,
                               !.status = 200, !.scheduled = TRUE, !.outcome = "NO_INTENT",
                               !.inc = [@ EXCEPT !["intent_missing"] = 1],
                               !.acctAt = "intent", !.dispatched = TRUE, !.batches = 1]
            rq(r) == IF r = 1 THEN answered("/a", NoSess)
                     ELSE answered(s.p2, [svc |-> Self, path |-> "/a"])
        IN  /\ req = [r \in Reqs |-> rq(r)]
            /\ batch = [r \in Reqs |-> [NewBatch EXCEPT !.pc = "gate", !.src = rq(r).path]]
            /\ sess = [svc |-> Self, path |-> s.p2]
            /\ ingests = UNION {BodyIngests(r, rq(r)) : r \in Reqs}
            /\ env = [reqs |-> NReq, faults |-> s.faults, budget |-> PolicyBudget,
                      fine |-> FALSE, grace |-> 0]
    /\ item = [i \in Items |-> NewItem]
    /\ nItems = 0
    /\ intent = {}
    /\ pf = {}
    /\ lock = [k \in Keys |-> 0]
    /\ debounce = {}
    /\ sem = PrefetchMaxConcurrency
    /\ polCache = [p \in Paths |-> NoPolicy]
    /\ ctr = [n \in CounterNames |-> IF n = "intent_missing" THEN NReq ELSE 0]
    /\ kvFaults = 0
    /\ chainTasks = Reqs
    /\ nrm = Unused
    /\ core = Unused
    /\ chain = Unused
    /\ cache = Unused
    /\ tgt = Unused

SpecTwoBatches ==
    TwoBatchesInit
    /\ [][\/ \E b \in Reqs :
                \/ BatchGate(b) \/ BatchDebounce(b) \/ BatchPolicy(b)
                \/ BatchLoopWake(b) \/ BatchWaitAll(b) \/ BatchWaitTimeout(b)
          \/ \E i \in Items :
                \/ ItemAcquire(i) \/ ItemIntent(i) \/ ItemSem(i)
                \/ ItemFetch(i) \/ ItemMark(i) \/ ItemRelease(i) \/ ItemCancelled(i)
          \/ \E k \in Keys : ExpireLock(k)
          \/ Tick]_vars

(***************************************************************************)
(* SpecGrace: a real request for /b or /a is accounted while the           *)
(* speculative fetch of /b, started by the batch of the request for /a     *)
(* before it, is under way; ANTICIP8_RACE_GRACE_MS is 0, 40 or 120 ms      *)
(***************************************************************************)
GraceInit ==
    /\ now = 0
    /\ breaker = NewBreaker(MwBreakerConfig)
    /\ brkLog = << >>
    /\ \E p2 \in Paths :
       LET b   == <<Self, "/b">>
           pol == [next_paths |-> <<b>>, max_prefetch |-> PolicyMaxPrefetch,
                   budget |-> PolicyBudget]
       IN  /\ req = [r \in Reqs |->
                        IF r = 1
                        THEN [NewReq EXCEPT !.pc = "done", !.path = "/a", !.status = 200,
                                            !.scheduled = TRUE, !.outcome = "NO_INTENT",
                                            !.inc = [@ EXCEPT !["intent_missing"] = 1],
                                            !.acctAt = "intent", !.dispatched = TRUE,
                                            !.batches = 1]
                        ELSE IF r = 2
                        THEN [NewReq EXCEPT !.pc = "acct_intent", !.path = p2,
                                            !.sawIntent = (p2 = "/b")]
                        ELSE NewReq]
           /\ batch = [r \in Reqs |->
                        IF r = 1
                        THEN [NewBatch EXCEPT !.pc = "wait", !.src = "/a",
                                              !.deadline = PolicyBudget, !.targets = <<b>>,
                                              !.idx = 1, !.pending = {1}, !.policyCalls = 1,
                                              !.answer = pol, !.lookup = TRUE]
                        ELSE NewBatch]
           /\ item = [i \in Items |->
                        IF i = 1
                        THEN [NewItem EXCEPT !.pc = "fetch", !.batch = 1, !.key = b,
                                             !.deadline = PolicyBudget, !.token = "held",
                                             !.fetched = TRUE]
                        ELSE NewItem]
           /\ intent = {b}
           /\ lock = [k \in Keys |-> IF k = b THEN 1 ELSE 0]
           /\ polCache = [p \in Paths |->
                            IF p = "/a"
                            THEN [exp |-> PolicyCacheTtl, value |-> pol, set |-> TRUE]
                            ELSE NoPolicy]
    /\ nItems = 1
    /\ pf = {}
    /\ debounce = {"/a"}
    /\ sess = [svc |-> Self, path |-> "/a"]
    /\ sem = PrefetchMaxConcurrency - 1
    /\ ctr = [n \in CounterNames |->
                IF n \in {"intent_missing", "policy_requests", "prefetch_total"} THEN 1 ELSE 0]
    /\ ingests = {}
    /\ chainTasks = {1, 2}
    /\ kvFaults = 0
    /\ env \in {[reqs |-> 2, faults |-> faults, budget |-> PolicyBudget, fine |-> FALSE,
                  grace |-> grace] : grace \in {0, 1, 3}, faults \in {0, 1}}
    /\ nrm = Unused
    /\ core = Unused
    /\ chain = Unused
    /\ cache = Unused
    /\ tgt = Unused

\* every step of the middleware but the arrival of a further request; the one
\* item slot left never fills max_batch_inflight, so no batch suspends in its loop
GraceNext ==
    \/ \E r \in Reqs :
          \/ AcctIntent(r) \/ AcctPf(r) \/ AcctGrace(r) \/ AcctDelete(r)
          \/ SessGet(r) \/ SessSet(r) \/ HandlerStart(r) \/ HandlerBody(r)
    \/ \E b \in Reqs :
          \/ BatchGate(b) \/ BatchDebounce(b) \/ BatchPolicy(b)
          \/ BatchWaitAll(b) \/ BatchWaitTimeout(b)
    \/ \E i \in Items :
          \/ ItemAcquire(i) \/ ItemIntent(i) \/ ItemSem(i)
          \/ ItemFetch(i) \/ ItemMark(i) \/ ItemRelease(i) \/ ItemCancelled(i)
    \/ \E k \in Keys : ExpireLock(k)
    \/ Tick

SpecGrace == GraceInit /\ [][GraceNext]_vars

(***************************************************************************)
(* SpecTwoHits: an earlier request for /a was answered and its batch       *)
(* fetched /b with success: both markers of /b are set, the lock is        *)
(* released, the tasks have returned. Then two real requests for /b of the *)
(* same user arrive together and are accounted concurrently.               *)
(***************************************************************************)
TwoHitsInit ==
    /\ now = 0
    /\ breaker = NewBreaker(MwBreakerConfig)
    /\ brkLog = << >>
    /\ req = [r \in Reqs |-> [NewReq EXCEPT !.pc = "acct_intent", !.path = "/b",
                                            !.sawIntent = TRUE, !.sawPf = TRUE]]
    /\ batch = [r \in Reqs |-> NewBatch]
    /\ item = [i \in Items |-> NewItem]
    /\ nItems = 0
    /\ intent = {<<Self, "/b">>}
    /\ pf = {<<Self, "/b">>}
    /\ lock = [k \in Keys |-> 0]
    /\ debounce = {"/a"}
    /\ sess = [svc |-> Self, path |-> "/a"]
    /\ sem = PrefetchMaxConcurrency
    /\ polCache = [p \in Paths |-> NoPolicy]
    \* the counters of the earlier request and of its one item
    /\ ctr = [n \in CounterNames |->
                IF n \in {"intent_missing", "policy_requests", "prefetch_total"} THEN 1 ELSE 0]
    /\ ingests = {}
    /\ chainTasks = Reqs
    /\ kvFaults = 0
    /\ env \in {[reqs |-> NReq, faults |-> faults, budget |-> PolicyBudget, fine |-> FALSE,
                  grace |-> 0] : faults \in {0, 1}}
    /\ nrm = Unused
    /\ core = Unused
    /\ chain = Unused
    /\ cache = Unused
    /\ tgt = Unused

\* the steps of the two requests up to their answers; the _prefetch tasks
\* they schedule are not followed
TwoHitsNext ==
    \E r \in Reqs :
        \/ AcctIntent(r) \/ AcctPf(r) \/ AcctDelete(r)
        \/ SessGet(r) \/ SessSet(r) \/ HandlerStart(r) \/ HandlerBody(r)

SpecTwoHits == TwoHitsInit /\ [][TwoHitsNext]_vars

(***************************************************************************)
(* SpecSession: the requests of a user whose session window is empty or    *)
(* names the node the user visited before, in this service or in another   *)
(* one that shares the KV (its middleware wrote the window)                *)
(***************************************************************************)
SessionInit ==
    /\ now = 0
    /\ breaker = NewBreaker(MwBreakerConfig)
    /\ brkLog = << >>
    /\ req = [r \in Reqs |-> NewReq]
    /\ batch = [r \in Reqs |-> NewBatch]
    /\ item = [i \in Items |-> NewItem]
    /\ nItems = 0
    /\ intent = {}
    /\ pf = {}
    /\ lock = [k \in Keys |-> 0]
    /\ debounce = {}
    /\ sess \in {NoSess} \cup [svc : {Self, "svc_t"}, path : Paths]
    /\ sem = PrefetchMaxConcurrency
    /\ polCache = [p \in Paths |-> NoPolicy]
    /\ ctr = [n \in CounterNames |-> 0]
    /\ ingests = {}
    /\ chainTasks = {}
    /\ kvFaults = 0
    /\ env = [reqs |-> NReq, faults |-> 0, budget |-> PolicyBudget, fine |-> FALSE, grace |-> 0]
    /\ nrm = Unused
    /\ core = Unused
    /\ chain = Unused
    /\ cache = Unused
    /\ tgt = Unused

\* the steps of __call__ and of send_wrapper; the _prefetch task of a request
\* is created and does not run
SpecSession ==
    SessionInit
    /\ [][\E r \in Reqs :
            \/ Arrive(r) \/ AcctIntent(r) \/ SessGet(r) \/ SessSet(r)
            \/ HandlerStart(r) \/ HandlerBody(r)]_vars

(***************************************************************************)
(* SpecBreaker: the breaker on its own clock                               *)
(***************************************************************************)
BrkInit ==
    /\ now = 0
    /\ \E cfg \in BreakerConfigs : breaker = NewBreaker(cfg)
    /\ brkLog = << >>
    /\ MwInit

BrkReport ==
    /\ Len(brkLog) < MaxReports
    /\ breaker' = BreakerReportError(breaker, now)
    /\ brkLog' = Append(brkLog, now)
    /\ UNCHANGED <<now, kvVars, mwVars>>

\* time passes
BrkTick ==
    /\ now < MaxBrkTime
    /\ now' = now + 1
    /\ UNCHANGED <<breaker, brkLog, kvVars, mwVars>>

BrkNext == BrkTick \/ BrkReport

SpecBreaker == BrkInit /\ [][BrkNext]_vars

(***************************************************************************)
(* norm_path of the policy engine. A path is a sequence of pieces: "/", a   *)
(* digit, a letter, a whole UUID, the name of a noise prefix, or one of    *)
(* the placeholders that norm_path writes.                                 *)
(***************************************************************************)
\* decimal digits (\d), and a string that RE_UUID accepts after its "/"
Digits == {"2", "4", "7"}
Uuid == "123e4567-e89b-42d3-a456-426614174000"

\* NOISE_PREFIXES
NOISE_PREFIXES ==
    {<<"/", "docs">>, <<"/", "openapi.json">>, <<"/", "redoc">>, <<"/", "metrics">>,
     <<"/", "_whoami">>, <<"/", "health">>}

\* str.startswith
StartsWith(p, pre) == Len(p) >= Len(pre) /\ SubSeq(p, 1, Len(pre)) = pre

\* p.startswith(NOISE_PREFIXES)
IsNoisePath(p) == \E pre \in NOISE_PREFIXES : StartsWith(p, pre)

\* "(?=/|$)" at position i of s
AtSlashOrEnd(s, i) == i > Len(s) \/ s[i] = "/"

\* RE_UUID.sub("/{uuid}", s), from position i on
RECURSIVE RE_UUID_sub(_, _)
RE_UUID_sub(s, i) ==
    IF i > Len(s) THEN << >>
    ELSE IF s[i] = "/" /\ i + 1 <= Len(s) /\ s[i + 1] = Uuid /\ AtSlashOrEnd(s, i + 2)
    THEN <<"/", "{uuid}">> \o RE_UUID_sub(s, i + 2)
    ELSE <<s[i]>> \o RE_UUID_sub(s, i + 1)

\* the last position of the longest run of digits that starts at i (i - 1: none)
RECURSIVE DigitRun(_, _)
DigitRun(s, i) ==
    IF i <= Len(s) /\ s[i] \in Digits THEN DigitRun(s, i + 1) ELSE i - 1

\* RE_INT.sub("/{id}", s), from position i on
RECURSIVE RE_INT_sub(_, _)
RE_INT_sub(s, i) ==
    IF i > Len(s) THEN << >>
    ELSE LET j == DigitRun(s, i + 1)
         IN  IF s[i] = "/" /\ j > i /\ AtSlashOrEnd(s, j + 1)
             THEN <<"/", "{id}">> \o RE_INT_sub(s, j + 1)
             ELSE <<s[i]>> \o RE_INT_sub(s, i + 1)

\* seeded fault: a norm_path that keeps the trailing slash
NormKeepsSlash(p) ==
    IF p = << >> THEN p
    ELSE IF IsNoisePath(p) THEN p
    ELSE RE_INT_sub(RE_UUID_sub(p, 1), 1)

\* norm_path
norm_path(p) ==
    IF p = << >> THEN p
    ELSE IF IsNoisePath(p) THEN p
    ELSE LET q == IF p # <<"/">> /\ p[Len(p)] = "/" THEN SubSeq(p, 1, Len(p) - 1) ELSE p
         IN  RE_INT_sub(RE_UUID_sub(q, 1), 1)

(***************************************************************************)
(* SpecNorm: norm_path applied to a path, and again to its result          *)
(***************************************************************************)
\* the pieces the paths of SpecNorm are made of, and the paths
NormInputs == UNION {[1..n -> {"/", "7", "a", Uuid, "docs"}] : n \in 0..MaxPathLen}

NormInit ==
    /\ Parked
    /\ \E p \in NormInputs : nrm = [pc |-> "path", p |-> p, once |-> << >>, twice |-> << >>]
    /\ core = Unused
    /\ chain = Unused
    /\ cache = Unused
    /\ tgt = Unused

\* norm_path(p)
NormOnce ==
    /\ nrm.pc = "path"
    /\ nrm' = [nrm EXCEPT !.pc = "once", !.once = norm_path(nrm.p)]
    /\ UNCHANGED <<brkVars, kvVars, req, batch, item, nItems, sem, polCache, ctr, ingests,
                   chainTasks, kvFaults, env, core, chain, cache, tgt>>

\* norm_path(norm_path(p))
NormTwice ==
    /\ nrm.pc = "once"
    /\ nrm' = [nrm EXCEPT !.pc = "twice", !.twice = norm_path(nrm.once)]
    /\ UNCHANGED <<brkVars, kvVars, req, batch, item, nItems, sem, polCache, ctr, ingests,
                   chainTasks, kvFaults, env, core, chain, cache, tgt>>

NormNext == NormOnce \/ NormTwice

SpecNorm == NormInit /\ [][NormNext]_vars

(***************************************************************************)
(* The policy engine (core/app/main.py): its Redis hashes, the three       *)
(* ingest endpoints and policy_next. Scores and probabilities are          *)
(* fractions n / d with d > 0; a cosine is given in hundredths.            *)
(***************************************************************************)
\* I2V_ALPHA = 0.65, in hundredths
I2V_ALPHA == 65
\* I2V_TOPK
I2V_TOPK == 30
\* MARKOV_SMOOTH
MARKOV_SMOOTH == 1
\* MIN_PROB = 0.001 = 1 / MIN_PROB_INV
MIN_PROB_INV == 1000
\* DROP_SELF_LOOPS
DROP_SELF_LOOPS == TRUE
\* ALLOW_PREFETCH_ATTEMPTS_IN_POLICY, read from the environment when the
\* engine starts ("0" unless the deployment sets it): a field of the deployment
ALLOW_PREFETCH_ATTEMPTS_IN_POLICY == core.allow
\* PREFETCH_ATTEMPT_WEIGHT = 0.15, in hundredths
PREFETCH_ATTEMPT_WEIGHT == 15

RECURSIVE Gcd(_, _)
Gcd(a, b) == IF b = 0 THEN a ELSE Gcd(b, a % b)

\* the fraction n / d in lowest terms
Frac(n, d) ==
    LET g == Gcd(IF n < 0 THEN -n ELSE n, d)
    IN  [n |-> n \div g, d |-> d \div g]
FracLess(x, y) == x.n * y.d < y.n * x.d
\* seeded fault: the smaller of two scores is kept
FracMin(x, y) == IF FracLess(x, y) THEN x ELSE y

FracMax(x, y) == IF FracLess(x, y) THEN y ELSE x

\* the Redis keys of the hashes: _k_trans, _k_trans_any, _k_trans_prefetch
\* ("trans", "trans2", "ptrans") and _k_total, _k_total_any, _k_total_prefetch
\* ("tot", "tot2", "ptot")
k_trans(kind, service, from_path) == <<kind, service, from_path>>
k_total(kind, service) == <<kind, service>>
\* _pack / _unpack: "<dst_service>|<dst_path>"
pack(dst_service, dst_path) == <<dst_service, dst_path>>

\* seeded fault: an hincrby that writes nothing
HIncrByNothing(h, key, field, n) == h

\* r.hincrby(key, field, n): h maps <<key, field>> to the count
HIncrBy(h, key, field, n) ==
    IF <<key, field>> \in DOMAIN h
    THEN [h EXCEPT ![<<key, field>>] = @ + n]
    ELSE h @@ (<<key, field>> :> n)

\* r.hgetall(key): the fields of the hash
HGetAll(h, key) == {kf[2] : kf \in {x \in DOMAIN h : x[1] = key}}

\* r.hget(key, field), 0 when absent
HGet(h, key, field) == IF <<key, field>> \in DOMAIN h THEN h[<<key, field>>] ELSE 0

\* the ingest endpoints answer {ok: True} or {ok: True, skipped: True}

\* seeded fault: an ingest that looks at the from-path only
NoiseFromOnly(f, t) == IsNoisePath(f)

\* "f.startswith(NOISE_PREFIXES) or t.startswith(NOISE_PREFIXES)"
NoiseEither(f, t) == IsNoisePath(f) \/ IsNoisePath(t)

\* ingest_event
ingest_event(h, service, from_path, to_path) ==
    LET f == norm_path(from_path)
        t == norm_path(to_path)
    IN  IF NoiseEither(f, t)
        THEN [h |-> h, resp |-> [ok |-> TRUE, skipped |-> TRUE]]
        ELSE [h |-> HIncrBy(HIncrBy(h, k_trans("trans", service, f), t, 1),
                            k_total("tot", service), f, 1),
              resp |-> [ok |-> TRUE, skipped |-> FALSE]]

\* ingest_edge
ingest_edge(h, src_service, src_path, dst_service, dst_path) ==
    LET src == norm_path(src_path)
        dst == norm_path(dst_path)
    IN  IF NoiseEither(src, dst)
        THEN [h |-> h, resp |-> [ok |-> TRUE, skipped |-> TRUE]]
        ELSE [h |-> HIncrBy(HIncrBy(h, k_trans("trans2", src_service, src),
                                    pack(dst_service, dst), 1),
                            k_total("tot2", src_service), src, 1),
              resp |-> [ok |-> TRUE, skipped |-> FALSE]]

\* ingest_prefetch_attempt
ingest_prefetch_attempt(h, src_service, src_path, dst_service, dst_path) ==
    LET src == norm_path(src_path)
        dst == norm_path(dst_path)
    IN  IF NoiseEither(src, dst)
        THEN [h |-> h, resp |-> [ok |-> TRUE, skipped |-> TRUE]]
        ELSE [h |-> HIncrBy(HIncrBy(h, k_trans("ptrans", src_service, src),
                                    pack(dst_service, dst), 1),
                            k_total("ptot", src_service), src, 1),
              resp |-> [ok |-> TRUE, skipped |-> FALSE]]

\* sum of the counts of the given fields of a hash
RECURSIVE SumCounts(_, _, _)
SumCounts(h, key, fields) ==
    IF fields = {} THEN 0
    ELSE LET f == CHOOSE x \in fields : TRUE
         IN  h[<<key, f>>] + SumCounts(h, key, fields \ {f})

\* the fields of a transition hash that are scored: positive count, no self loop
\* (self is the field that stands for the node itself)
Scored(h, key, self) ==
    {f \in HGetAll(h, key) : h[<<key, f>>] > 0 /\ ~(DROP_SELF_LOOPS /\ f = self)}

\* the smoothed probability of field f among the scored fields of the hash
SmoothedProb(h, key, self, f) ==
    LET fields == Scored(h, key, self)
        total  == SumCounts(h, key, fields)
        k      == Cardinality(fields)
        denom  == total + (IF MARKOV_SMOOTH > 0 /\ k > 0 THEN MARKOV_SMOOTH * k ELSE 0)
        num    == h[<<key, f>>] + (IF MARKOV_SMOOTH > 0 THEN MARKOV_SMOOTH ELSE 0)
    IN  Frac(num, denom)

\* "prob >= MIN_PROB"
AboveMinProb(prob) == prob.n * MIN_PROB_INV >= prob.d

\* policy_next parts 1-3: the markov map, destination <<service, path>> -> prob
Markov(h, service, p) ==
    LET key1 == k_trans("trans", service, p)
        m1   == {t \in Scored(h, key1, p) : AboveMinProb(SmoothedProb(h, key1, p, t))}
        key2 == k_trans("trans2", service, p)
        self == pack(service, p)
        m2   == {d \in Scored(h, key2, self) : AboveMinProb(SmoothedProb(h, key2, self, d))}
        keyp == k_trans("ptrans", service, p)
        totp == HGet(h, k_total("ptot", service), p)
        weak(d) == Frac(h[<<keyp, d>>] * PREFETCH_ATTEMPT_WEIGHT, totp * 100)
        mp   == IF ALLOW_PREFETCH_ATTEMPTS_IN_POLICY /\ totp > 0
                THEN {d \in HGetAll(h, keyp) : h[<<keyp, d>>] > 0 /\ AboveMinProb(weak(d))}
                ELSE {}
        none == Frac(0, 1)
        p1(d) == IF d[1] = service /\ d[2] \in m1
                 THEN SmoothedProb(h, key1, p, d[2]) ELSE none
        p2(d) == IF d \in m2 THEN SmoothedProb(h, key2, self, d) ELSE none
        pp(d) == IF d \in mp THEN weak(d) ELSE none
    IN  [d \in {<<service, t>> : t \in m1} \cup m2 \cup mp |->
            FracMax(FracMax(p1(d), p2(d)), pp(d))]

\* get_i2v_candidates: the first I2V_TOPK entries of the row that name an item
get_i2v_candidates(i2v, service, path) ==
    IF <<service, path>> \in DOMAIN i2v
    THEN SelectSeq(SubSeq(i2v[<<service, path>>], 1,
                          Min(I2V_TOPK, Len(i2v[<<service, path>>]))),
                   LAMBDA e : e.item # << >>)
    ELSE << >>

\* the sequences without repetition of all elements of S
Orders(S) ==
    {s \in [1..Cardinality(S) -> S] : \A i, j \in 1..Cardinality(S) : i # j => s[i] # s[j]}

\* what "sort(key = score, reverse = True)" may give: every order of the
\* destinations with non-increasing scores (equal scores keep the order of the
\* dict, which is the order Redis listed the fields in)
Ranked(sc) ==
    {s \in Orders(DOMAIN sc) :
        \A i \in 1..(Len(s) - 1) : ~FracLess(sc[s[i]], sc[s[i + 1]])}

\* s[:n]
Top(s, n) == SubSeq(s, 1, Min(Max(0, n), Len(s)))

\* alpha * cos + (1 - alpha) * prob
Hybrid(cos, prob) ==
    Frac(I2V_ALPHA * cos * prob.d + (100 - I2V_ALPHA) * 100 * prob.n, 10000 * prob.d)

\* the best score of the i2v candidates cands[i..] on top of best
RECURSIVE BestOfCands(_, _, _, _, _, _)
BestOfCands(cands, i, markov, service, p, best) ==
    IF i > Len(cands) THEN best
    ELSE LET key  == cands[i].item
             prob == IF key \in DOMAIN markov THEN markov[key] ELSE Frac(0, 1)
             sc   == Hybrid(cands[i].cos, prob)
             nb   == IF DROP_SELF_LOOPS /\ key = <<service, p>> THEN best
                     ELSE IF key \notin DOMAIN best THEN best @@ (key :> sc)
                     ELSE IF FracLess(best[key], sc) THEN [best EXCEPT ![key] = sc]
                     ELSE best
         IN  BestOfCands(cands, i + 1, markov, service, p, nb)

\* the insurance: the markov edges ins, scored (1 - alpha) * prob, on top of best
Insure(best, markov, ins) ==
    LET sc(d) == Frac((100 - I2V_ALPHA) * markov[d].n, 100 * markov[d].d)
    IN  [d \in DOMAIN best \cup ins |->
            IF d \notin DOMAIN best THEN sc(d)
            ELSE IF d \in ins /\ FracLess(best[d], sc(d)) THEN sc(d)
            ELSE best[d]]

\* the answers of policy_next
PolicyResp(next_paths, max_prefetch, max_prefetch_time_ms) ==
    [next_paths |-> next_paths, max_prefetch |-> max_prefetch,
     max_prefetch_time_ms |-> max_prefetch_time_ms]

NextPaths(s, sc) == [i \in 1..Len(s) |-> [service |-> s[i][1], path |-> s[i][2],
                                          score |-> sc[s[i]]]]

\* seeded fault: a hybrid ranking that is used whether or not a row exists
\* and that forgets the insurance
policy_next_i2v_only(h, i2v, service, path, limit) ==
    LET p     == norm_path(path)
        best  == BestOfCands(get_i2v_candidates(i2v, service, p), 1, Markov(h, service, p),
                             service, p, << >>)
    IN  {PolicyResp(NextPaths(Top(s, limit), best), PolicyMaxPrefetch, PolicyBudget) :
            s \in Ranked(best)}

\* policy_next: the set of answers it may give (one per order of equal scores)
policy_next(h, i2v, service, path, limit) ==
    LET p      == norm_path(path)
        markov == Markov(h, service, p)
        cands  == get_i2v_candidates(i2v, service, p)
    IN  IF IsNoisePath(p) THEN {PolicyResp(<< >>, 0, 0)}
        ELSE IF cands = << >>
        THEN {PolicyResp(NextPaths(Top(s, limit), markov), PolicyMaxPrefetch, PolicyBudget) :
                s \in Ranked(markov)}
        ELSE UNION {
                LET best == Insure(BestOfCands(cands, 1, markov, service, p, << >>), markov,
                                   {ms[i] : i \in 1..Len(Top(ms, Max(5, limit * 3)))})
                IN  {PolicyResp(NextPaths(Top(s, limit), best), PolicyMaxPrefetch,
                                PolicyBudget) : s \in Ranked(best)}
                : ms \in Ranked(markov)}

(***************************************************************************)
(* SpecCore: calls of the ingest endpoints and of policy_next              *)
(***************************************************************************)
\* the paths of the requests
CorePath ==
    [a |-> <<"/", "a">>, b |-> <<"/", "b">>, c |-> <<"/", "c">>,
     orders42Slash |-> <<"/", "orders", "/", "4", "2", "/">>,
     orders42Items |-> <<"/", "orders", "/", "4", "2", "/", "items">>,
     orders7 |-> <<"/", "orders", "/", "7">>,
     orders7Slash |-> <<"/", "orders", "/", "7", "/">>,
     docs |-> <<"/", "docs">>,
     health |-> <<"/", "health", "/", "7">>]

\* the similarity rows the offline trainer may have written for the node /a
Rows ==
    [none |-> << >>,
     c    |-> <<Self, CorePath.a>> :> <<[item |-> <<Self, CorePath.c>>, cos |-> 90]>>,
     cba  |-> <<Self, CorePath.a>> :> <<[item |-> <<Self, CorePath.c>>, cos |-> 90],
                                       [item |-> <<Self, CorePath.b>>, cos |-> 20],
                                       [item |-> <<Self, CorePath.a>>, cos |-> 10]>>]

\* the deployments explored: the paths clients send and the similarity table
CoreScenarios ==
    {[paths |-> {CorePath.a, CorePath.docs, CorePath.health}, i2v |-> Rows.none],
     [paths |-> {CorePath.orders42Slash, CorePath.orders42Items, CorePath.orders7,
                 CorePath.orders7Slash},
      i2v |-> Rows.none],
     [paths |-> {CorePath.a, CorePath.b, CorePath.c}, i2v |-> Rows.none],
     [paths |-> {CorePath.a, CorePath.b, CorePath.c}, i2v |-> Rows.c],
     [paths |-> {CorePath.a, CorePath.b, CorePath.c}, i2v |-> Rows.cba]}

\* the limit parameter of policy_next: the SDK sends 3
Limits == {1, 3}
\* the limit parameter of policy_next as any client may send it
AnyLimits == {-1, 0, 1, 3}

CoreInit ==
    /\ Parked
    /\ nrm = Unused
    /\ chain = Unused
    /\ cache = Unused
    /\ tgt = Unused
    /\ \E s \in CoreScenarios :
        core = [pc |-> "run", paths |-> s.paths, i2v |-> s.i2v, h |-> << >>,
                allow |-> FALSE, limits |-> Limits,
                ingested |-> 0,
                call |-> [name |-> "none", from |-> << >>, to |-> << >>, limit |-> 0],
                resp |-> [ok |-> TRUE, skipped |-> FALSE],
                \* history: the ingest calls made so far
                calls |-> {}]

\* POST /ingest/event
IngestEvent ==
    /\ core.pc = "run" /\ core.ingested < MaxIngests
    /\ \E f \in core.paths, t \in core.paths :
        LET out == ingest_event(core.h, Self, f, t)
        IN  core' = [core EXCEPT
                        !.h = out.h, !.resp = out.resp, !.ingested = @ + 1,
                        !.call = [name |-> "event", from |-> f, to |-> t, limit |-> 0],
                        !.calls = @ \cup {[name |-> "event", from |-> f, to |-> t]}]
    /\ UNCHANGED <<brkVars, kvVars, req, batch, item, nItems, sem, polCache, ctr, ingests,
                   chainTasks, kvFaults, env, nrm, chain, cache, tgt>>

\* POST /ingest/edge
IngestEdge ==
    /\ core.pc = "run" /\ core.ingested < MaxIngests
    /\ \E f \in core.paths, t \in core.paths :
        LET out == ingest_edge(core.h, Self, f, Self, t)
        IN  core' = [core EXCEPT
                        !.h = out.h, !.resp = out.resp, !.ingested = @ + 1,
                        !.call = [name |-> "edge", from |-> f, to |-> t, limit |-> 0],
                        !.calls = @ \cup {[name |-> "edge", from |-> f, to |-> t]}]
    /\ UNCHANGED <<brkVars, kvVars, req, batch, item, nItems, sem, polCache, ctr, ingests,
                   chainTasks, kvFaults, env, nrm, chain, cache, tgt>>

\* POST /ingest/prefetch
IngestPrefetch ==
    /\ core.pc = "run" /\ core.ingested < MaxIngests
    /\ \E f \in core.paths, t \in core.paths :
        LET out == ingest_prefetch_attempt(core.h, Self, f, Self, t)
        IN  core' = [core EXCEPT
                        !.h = out.h, !.resp = out.resp, !.ingested = @ + 1,
                        !.call = [name |-> "prefetch", from |-> f, to |-> t, limit |-> 0],
                        !.calls = @ \cup {[name |-> "prefetch", from |-> f, to |-> t]}]
    /\ UNCHANGED <<brkVars, kvVars, req, batch, item, nItems, sem, polCache, ctr, ingests,
                   chainTasks, kvFaults, env, nrm, chain, cache, tgt>>

\* GET /policy/next
PolicyNext ==
    /\ core.pc = "run"
    /\ \E p \in core.paths, limit \in core.limits :
       \E resp \in policy_next(core.h, core.i2v, Self, p, limit) :
        core' = [core EXCEPT
                    !.resp = resp,
                    !.call = [name |-> "policy", from |-> p, to |-> << >>, limit |-> limit]]
    /\ UNCHANGED <<brkVars, kvVars, req, batch, item, nItems, sem, polCache, ctr, ingests,
                   chainTasks, kvFaults, env, nrm, chain, cache, tgt>>

CoreNext == IngestEvent \/ IngestEdge \/ IngestPrefetch \/ PolicyNext

SpecCore == CoreInit /\ [][CoreNext]_vars

(***************************************************************************)
(* SpecCoreConfig: the same calls with prefetch attempts folded into the   *)
(* policy or not, any limit, on a store that has learned /a -> /c          *)
(***************************************************************************)
CoreConfigInit ==
    /\ Parked
    /\ nrm = Unused
    /\ chain = Unused
    /\ cache = Unused
    /\ tgt = Unused
    /\ \E allow \in BOOLEAN, i2v \in {Rows.none, Rows.cba} :
        core = [pc |-> "run", paths |-> {CorePath.a, CorePath.b, CorePath.c}, i2v |-> i2v,
                h |-> ingest_event(<< >>, Self, CorePath.a, CorePath.c).h,
                allow |-> allow, limits |-> AnyLimits,
                ingested |-> 0,
                call |-> [name |-> "event", from |-> CorePath.a, to |-> CorePath.c,
                          limit |-> 0],
                resp |-> [ok |-> TRUE, skipped |-> FALSE],
                calls |-> {[name |-> "event", from |-> CorePath.a, to |-> CorePath.c]}]

SpecCoreConfig == CoreConfigInit /\ [][CoreNext]_vars

(***************************************************************************)
(* SpecCoreFault: the same calls when a read of Redis can raise            *)
(***************************************************************************)
\* GET /policy/next when r.hgetall (220, 250, 288), r.hget (285) or r.get (71)
\* raises: none of them is inside a try, the exception leaves policy_next and
\* the framework answers 500 Internal Server Error. A noise path returns
\* before the first read.
PolicyNextFails ==
    /\ core.pc = "run"
    /\ \E p \in core.paths, limit \in core.limits :
        /\ ~IsNoisePath(norm_path(p))
        /\ core' = [core EXCEPT
                        !.resp = [status |-> 500],
                        !.call = [name |-> "policy", from |-> p, to |-> << >>,
                                  limit |-> limit]]
    /\ UNCHANGED <<brkVars, kvVars, req, batch, item, nItems, sem, polCache, ctr, ingests,
                   chainTasks, kvFaults, env, nrm, chain, cache, tgt>>

SpecCoreFault == CoreInit /\ [][CoreNext \/ PolicyNextFails]_vars

(***************************************************************************)
(* SpecCoreRows: the same calls when the value under the similarity key of *)
(* /a is any string. A raw row is the shape of what json.loads makes of    *)
(* it, with the entries of a list of objects.                              *)
(***************************************************************************)
\* the values found under i2v:svc_s:/a: a list of objects with item and cos (as
\* the trainer writes it), text that is not JSON, a JSON object, a list whose
\* elements are numbers, the empty list
RawRows ==
    {[shape |-> "list", data |-> Rows.cba[<<Self, CorePath.a>>]],
     [shape |-> "list", data |-> << >>],
     [shape |-> "text", data |-> << >>],
     [shape |-> "object", data |-> << >>],
     [shape |-> "scalars", data |-> << >>]}

\* json.loads(raw) inside the try: "except Exception: return []"
JsonLoads(raw) == IF raw.shape = "text" THEN [ok |-> FALSE] ELSE [ok |-> TRUE, data |-> raw]

\* "for item in data[:I2V_TOPK]: n = item.get("item")", outside every try:
\* slicing a dict raises, and so does .get on an element that is no dict
LoopRaises(data) == data.shape = "object" \/ data.shape = "scalars"

\* get_i2v_candidates on the raw value: it raises, or gives the rows that
\* policy_next goes on with
get_i2v_candidates_raw(raw, service, path) ==
    LET loaded == JsonLoads(raw)
    IN  IF ~loaded.ok THEN [raised |-> FALSE, i2v |-> Rows.none]
        ELSE IF LoopRaises(loaded.data) THEN [raised |-> TRUE, i2v |-> Rows.none]
        ELSE [raised |-> FALSE,
              i2v |-> IF loaded.data.data = << >> THEN Rows.none
                      ELSE <<service, path>> :> loaded.data.data]

CoreRowsInit ==
    /\ Parked
    /\ nrm = Unused
    /\ chain = Unused
    /\ cache = Unused
    /\ tgt = Unused
    /\ \E raw \in RawRows :
        core = [pc |-> "run", paths |-> {CorePath.a, CorePath.b, CorePath.c},
                i2v |-> Rows.none, raw |-> raw, h |-> << >>,
                allow |-> FALSE, limits |-> Limits,
                ingested |-> 0,
                call |-> [name |-> "none", from |-> << >>, to |-> << >>, limit |-> 0],
                resp |-> [ok |-> TRUE, skipped |-> FALSE],
                calls |-> {}]

\* GET /policy/next: the query of /a reads the raw value; an exception of
\* get_i2v_candidates leaves policy_next and the framework answers 500
PolicyNextRaw ==
    /\ core.pc = "run"
    /\ \E p \in core.paths, limit \in core.limits :
        LET q   == norm_path(p)
            got == IF q = CorePath.a /\ ~IsNoisePath(q)
                   THEN get_i2v_candidates_raw(core.raw, Self, q)
                   ELSE [raised |-> FALSE, i2v |-> Rows.none]
            call == [name |-> "policy", from |-> p, to |-> << >>, limit |-> limit]
        IN  IF got.raised
            THEN core' = [core EXCEPT !.resp = [status |-> 500], !.call = call]
            ELSE \E resp \in policy_next(core.h, got.i2v, Self, p, limit) :
                    core' = [core EXCEPT !.resp = resp, !.call = call]
    /\ UNCHANGED <<brkVars, kvVars, req, batch, item, nItems, sem, polCache, ctr, ingests,
                   chainTasks, kvFaults, env, nrm, chain, cache, tgt>>

SpecCoreRows ==
    CoreRowsInit /\ [][IngestEvent \/ IngestEdge \/ IngestPrefetch \/ PolicyNextRaw]_vars

(***************************************************************************)
(* The chain log (sdk/anticip8_sdk/chainlog.py)                            *)
(***************************************************************************)
\* the user of the run and the request keys it visits
ChainUser == "u1"
ChainKeys == {"A", "B", "C"}

\* _step_key: "<service>|<req_key>"
step_key(service, req_key) == <<service, req_key>>
\* a key that does not exist (mget gives None)
NoStep == << >>

\* the sorted sets
\* _k_top2_global, _k_top3_global, _k_top2_user, _k_top3_user
k_top_global(n) == <<"top", n>>
k_top_user(user, n) == <<"u", user, "top", n>>

\* pipe.zincrby(key, 1.0, member): z maps <<key, member>> to the score
ZIncrBy(z, key, member, n) ==
    IF <<key, member>> \in DOMAIN z
    THEN [z EXCEPT ![<<key, member>>] = @ + n]
    ELSE z @@ (<<key, member>> :> n)

\* r.zscore(key, member), 0 when absent
ZScore(z, key, member) == IF <<key, member>> \in DOMAIN z THEN z[<<key, member>>] ELSE 0

\* seeded fault: prev is always set to cur
PrevIsCur(last, cur) == cur

\* "last or cur"
LastOrCur(last, cur) == IF last # NoStep THEN last ELSE cur

\* seeded fault: a Redis failure inside log_step leaves it as an exception
ExceptRaises == "raised"

\* "except Exception: return": how log_step ends when a Redis call raised
ExceptReturns == "returned"

\* the pipeline of log_step for cur, given what mget returned. The pipeline is
\* not transactional: its commands are queued in the order zincrby top2,
\* zincrby top2 of the user, zincrby top3, zincrby top3 of the user, setex
\* last, setex prev, and when execute fails only the first n of these six
\* places have reached the store (n = 6 when it succeeds)
LogPipeline(z, user, last, prev, cur, per_user, enable_trigram, n) ==
    LET b  == <<last, cur>>
        z1 == IF last # NoStep /\ last # cur
              THEN LET g == IF n >= 1 THEN ZIncrBy(z, k_top_global(2), b, 1) ELSE z
                   IN  IF per_user /\ n >= 2 THEN ZIncrBy(g, k_top_user(user, 2), b, 1) ELSE g
              ELSE z
        t  == <<prev, last, cur>>
        z2 == IF enable_trigram /\ prev # NoStep /\ last # NoStep /\ prev # last /\ last # cur
              THEN LET g == IF n >= 3 THEN ZIncrBy(z1, k_top_global(3), t, 1) ELSE z1
                   IN  IF per_user /\ n >= 4 THEN ZIncrBy(g, k_top_user(user, 3), t, 1) ELSE g
              ELSE z1
    IN  [z |-> z2, last |-> IF n >= 5 THEN cur ELSE last,
         prev |-> IF n >= 6 THEN LastOrCur(last, cur) ELSE prev]

(***************************************************************************)
(* SpecChain: one fresh user visits nodes one after another; the log_step  *)
(* of a visit has returned before the log_step of the next visit starts    *)
(***************************************************************************)
ChainInit ==
    /\ Parked
    /\ nrm = Unused
    /\ core = Unused
    /\ cache = Unused
    /\ tgt = Unused
    /\ chain = [pc |-> "idle", z |-> << >>, last |-> NoStep, prev |-> NoStep,
                cur |-> NoStep, gotLast |-> NoStep, gotPrev |-> NoStep,
                \* history: the nodes visited so far, how the last log_step
                \* ended, the visits whose response was sent, the Redis
                \* failures met
                visits |-> << >>, outcome |-> "none", answered |-> 0, faults |-> 0]

\* log_step up to "last, prev = await r.mget(last_k, prev_k)"
LogStepRead ==
    /\ chain.pc = "idle"
    /\ Len(chain.visits) < MaxVisits
    /\ \E k \in ChainKeys :
        chain' = [chain EXCEPT !.pc = "read", !.cur = step_key(Self, k),
                               !.gotLast = chain.last, !.gotPrev = chain.prev,
                               !.visits = Append(@, step_key(Self, k))]
    /\ UNCHANGED <<brkVars, kvVars, req, batch, item, nItems, sem, polCache, ctr, ingests,
                   chainTasks, kvFaults, env, nrm, core, cache, tgt>>

\* log_step from the pipeline to "await pipe.execute()"
LogStepExecute ==
    /\ chain.pc = "read"
    /\ LET out == LogPipeline(chain.z, ChainUser, chain.gotLast, chain.gotPrev, chain.cur,
                              TRUE, TRUE, 6)
       IN  chain' = [chain EXCEPT !.pc = "idle", !.z = out.z, !.last = out.last,
                                  !.prev = out.prev, !.outcome = "returned"]
    /\ UNCHANGED <<brkVars, kvVars, req, batch, item, nItems, sem, polCache, ctr, ingests,
                   chainTasks, kvFaults, env, nrm, core, cache, tgt>>

ChainNext == LogStepRead \/ LogStepExecute

SpecChain == ChainInit /\ [][ChainNext]_vars

(***************************************************************************)
(* SpecChainFault: the same visits when Redis can fail inside log_step,    *)
(* next to the request that created the log_step task                      *)
(***************************************************************************)
\* log_step when r.mget raises (nothing was written), or when pipe.execute
\* raises after n of its commands reached the store
LogStepFails ==
    /\ chain.faults < MaxKvFaults
    /\ \/ /\ chain.pc = "idle"
          /\ Len(chain.visits) < MaxVisits
          /\ \E k \in ChainKeys :
                chain' = [chain EXCEPT !.cur = step_key(Self, k),
                                       !.visits = Append(@, step_key(Self, k)),
                                       !.outcome = ExceptReturns, !.faults = @ + 1]
       \/ /\ chain.pc = "read"
          /\ \E n \in 0..6 :
                LET out == LogPipeline(chain.z, ChainUser, chain.gotLast, chain.gotPrev,
                                       chain.cur, TRUE, TRUE, n)
                IN  chain' = [chain EXCEPT !.pc = "idle", !.z = out.z, !.last = out.last,
                                           !.prev = out.prev, !.outcome = ExceptReturns,
                                           !.faults = @ + 1]
    /\ UNCHANGED <<brkVars, kvVars, req, batch, item, nItems, sem, polCache, ctr, ingests,
                   chainTasks, kvFaults, env, nrm, core, cache, tgt>>

\* __call__ after asyncio.create_task(log_step(...)): the request goes on to
\* its handler and its response whatever the task does, an exception of the
\* task stays in the task
Answer ==
    /\ chain.answered < Len(chain.visits)
    /\ chain' = [chain EXCEPT !.answered = @ + 1]
    /\ UNCHANGED <<brkVars, kvVars, req, batch, item, nItems, sem, polCache, ctr, ingests,
                   chainTasks, kvFaults, env, nrm, core, cache, tgt>>

SpecChainFault ==
    ChainInit /\ [][ChainNext \/ LogStepFails \/ Answer]_vars /\ WF_vars(Answer)

(***************************************************************************)
(* The response cache (sdk/anticip8_sdk/cache.py)                          *)
(***************************************************************************)
\* a dict is the sequence of its (key, value) items in insertion order
Dicts(keys, values) ==
    {d \in UNION {[1..n -> keys \X values] : n \in 0..MaxParams} :
        \A i, j \in DOMAIN d : i # j => d[i][1] # d[j][1]}

\* seeded fault: json.dumps without sort_keys keeps the insertion order
InsertionOrder(d) == d

\* json.dumps(d, sort_keys=True): the items of d in the order of their keys
\* (KeyRank: the order of Python strings on the parameter names of the model)
SortedItems(d) ==
    LET KeyRank == [id |-> 1, slug |-> 2, a |-> 1, b |-> 2]
    IN  CHOOSE s \in [DOMAIN d -> {d[i] : i \in DOMAIN d}] :
            /\ {s[i] : i \in DOMAIN d} = {d[i] : i \in DOMAIN d}
            /\ \A i, j \in DOMAIN d : i < j => KeyRank[s[i][1]] < KeyRank[s[j][1]]

\* str.upper on the methods of the model
Upper(m) == CASE m = "get" -> "GET" [] m = "post" -> "POST" [] OTHER -> m

\* _stable_json(base): the text of the object, keys sorted at every level
stable_json(base) ==
    <<"m", base.m, "ns", base.ns, "p", base.p, "qp", SortedItems(base.qp),
      "rp", SortedItems(base.rp), "u", base.u>>

\* _hash: sha256 of the text, taken to be free of collisions
hash(text) == <<"sha256", text>>

\* None, null in JSON (no user of the model is called so)
None == "null"

\* the dict "base" of default_key_builder
Base(x) ==
    [ns |-> x.namespace, m |-> Upper(x.method), p |-> x.path, rp |-> x.route_params,
     qp |-> x.query_params, u |-> IF x.vary_user THEN x.user_key ELSE None]

\* default_key_builder: "anticip8:cache:{namespace}:{sha256}"
default_key_builder(x) == <<"anticip8:cache", x.namespace, hash(stable_json(Base(x)))>>

\* the key inputs of the model
KeyInputs ==
    [namespace : {"default"}, method : {"get", "GET"}, path : {"/a"},
     route_params : Dicts({"id", "slug"}, {"7"}),
     query_params : Dicts({"a", "b"}, {"1", "2"}),
     vary_user : BOOLEAN, user_key : {"u1", "u2"}]

(***************************************************************************)
(* SpecCache: the keys of two inputs built side by side, and one call of   *)
(* the wrapper of cache_response over a store that may fail                *)
(***************************************************************************)
CacheInit ==
    /\ Parked
    /\ nrm = Unused
    /\ core = Unused
    /\ chain = Unused
    /\ tgt = Unused
    /\ \/ \E x \in KeyInputs : cache = [pc |-> "keys", x |-> x]
       \/ \E x \in {k \in KeyInputs : k.route_params = << >> /\ k.query_params = << >>},
             fo \in BOOLEAN, entry \in {None, "json", "corrupt"} :
             cache = [pc |-> "get", key |-> default_key_builder(x), fail_open |-> fo,
                      \* the entry of the store under the key
                      entry |-> entry,
                      got |-> "none", data |-> None, setex |-> 0, hits |-> 0, misses |-> 0,
                      result |-> None]

\* build_cache_key for the input of Init and for another input
BuildKeys ==
    /\ cache.pc = "keys"
    /\ \E y \in KeyInputs :
        cache' = [pc |-> "compared", x |-> cache.x, y |-> y,
                  kx |-> default_key_builder(cache.x), ky |-> default_key_builder(y)]
    /\ UNCHANGED <<brkVars, kvVars, req, batch, item, nItems, sem, polCache, ctr, ingests,
                   chainTasks, kvFaults, env, nrm, core, chain, tgt>>

\* wrapper, "---- GET ----": cache.get raises or answers; a hit that parses
\* is returned, a corrupted one counts a miss and goes on
WrapperGet ==
    /\ cache.pc = "get"
    /\ \E fails \in BOOLEAN :
        cache' =
            IF fails
            THEN IF cache.fail_open
                 THEN [cache EXCEPT !.pc = "compute", !.got = "failed", !.misses = @ + 1]
                 ELSE [cache EXCEPT !.pc = "done", !.got = "failed", !.result = "raised"]
            ELSE CASE cache.entry = None ->
                        [cache EXCEPT !.pc = "compute", !.got = "miss", !.misses = @ + 1]
                   [] cache.entry = "corrupt" ->
                        [cache EXCEPT !.pc = "compute", !.got = "corrupt", !.hits = @ + 1,
                                      !.misses = @ + 2]
                   [] OTHER ->
                        [cache EXCEPT !.pc = "done", !.got = "hit", !.hits = @ + 1,
                                      !.result = cache.entry]
    /\ UNCHANGED <<brkVars, kvVars, req, batch, item, nItems, sem, polCache, ctr, ingests,
                   chainTasks, kvFaults, env, nrm, core, chain, tgt>>

\* wrapper, "---- COMPUTE ----": the handler raises or returns a JSON value, a
\* Response object or an object json.dumps rejects; the last two are returned
\* uncached
WrapperCompute ==
    /\ cache.pc = "compute"
    /\ \/ cache' = [cache EXCEPT !.pc = "done", !.result = "raised"]
       \/ \E data \in {"json", "response", "unjsonable"} :
            cache' = IF data = "json"
                     THEN [cache EXCEPT !.pc = "set", !.data = data]
                     ELSE [cache EXCEPT !.pc = "done", !.data = data, !.result = data]
    /\ UNCHANGED <<brkVars, kvVars, req, batch, item, nItems, sem, polCache, ctr, ingests,
                   chainTasks, kvFaults, env, nrm, core, chain, tgt>>

\* wrapper, "---- SET ----": cache.setex is issued; its failure is swallowed
\* when fail_open
WrapperSet ==
    /\ cache.pc = "set"
    /\ \E fails \in BOOLEAN :
        cache' =
            IF fails
            THEN [cache EXCEPT !.pc = "done", !.setex = @ + 1,
                               !.result = IF cache.fail_open THEN cache.data ELSE "raised"]
            ELSE [cache EXCEPT !.pc = "done", !.setex = @ + 1, !.entry = cache.data,
                               !.result = cache.data]
    /\ UNCHANGED <<brkVars, kvVars, req, batch, item, nItems, sem, polCache, ctr, ingests,
                   chainTasks, kvFaults, env, nrm, core, chain, tgt>>

SpecCache == CacheInit /\ [][BuildKeys \/ WrapperGet \/ WrapperCompute \/ WrapperSet]_vars

(***************************************************************************)
(* SpecWarm: an internal warmer of the orders service                      *)
(* (services/orders_api/app/main.py) writes the cache, then a real request *)
(* for the same path reaches the handler wrapped by cache_response         *)
(***************************************************************************)
\* the routes with a registered warmer: the template, the name of its path
\* parameter ("" when it has none), vary_user of warmer and handler, and the
\* query_params the warmer passes to build_cache_key
WarmRoutes ==
    {[tpl |-> <<"orders", "{order_id}">>, param |-> "order_id", vary_user |-> FALSE,
      warm_qp |-> << >>],
     [tpl |-> <<"orders", "{order_id}", "items">>, param |-> "order_id",
      vary_user |-> FALSE, warm_qp |-> << >>],
     [tpl |-> <<"basket", "summary">>, param |-> "", vary_user |-> TRUE, warm_qp |-> << >>],
     [tpl |-> <<"profile">>, param |-> "", vary_user |-> TRUE, warm_qp |-> << >>],
     [tpl |-> <<"profile", "history">>, param |-> "", vary_user |-> TRUE,
      warm_qp |-> <<<<"page", "1">>>>],
     [tpl |-> <<"feed">>, param |-> "", vary_user |-> TRUE, warm_qp |-> << >>]}

\* the order ids and the users (x-user, "anon" when the header is missing)
OrderIds == {"7", "42"}
WarmUsers == {"u1", "anon"}

\* f"/orders/{order_id}": the concrete path of a route
ConcretePath(route, id) ==
    [i \in 1..Len(route.tpl) |-> IF route.tpl[i] = "{order_id}" THEN id ELSE route.tpl[i]]

\* _cache_put_json: route_params={} whatever the route
PutRouteParams(route, id) == << >>

\* the key a warmer writes: _cache_put_json, and build_cache_key in pf_profile_history
WarmerKey(route, id, uid) ==
    default_key_builder([namespace |-> "orders", path |-> ConcretePath(route, id),
                         method |-> "GET", route_params |-> PutRouteParams(route, id),
                         query_params |-> route.warm_qp, vary_user |-> route.vary_user,
                         user_key |-> uid])

\* the key the wrapper of cache_response builds from the request:
\* request.url.path, request.method, request.path_params, request.query_params,
\* and the x-user header when vary_user
HandlerKey(route, id, xuser, query) ==
    default_key_builder([namespace |-> "orders", path |-> ConcretePath(route, id),
                         method |-> "GET",
                         route_params |-> IF route.param = "" THEN << >>
                                          ELSE <<<<route.param, id>>>>,
                         query_params |-> query, vary_user |-> route.vary_user,
                         user_key |-> xuser])

WarmInit ==
    /\ Parked
    /\ nrm = Unused
    /\ core = Unused
    /\ chain = Unused
    /\ tgt = Unused
    /\ \E route \in WarmRoutes, id \in OrderIds, uid \in WarmUsers :
        cache = [pc |-> "warm", route |-> route, id |-> id, user |-> uid,
                 \* the keys of the store that hold an entry
                 store |-> {}, warmed |-> FALSE,
                 req |-> [user |-> "none", query |-> << >>], got |-> "none",
                 handler |-> FALSE]

\* the warmer runs: the implementation, then _cache.setex under its key; an
\* exception of either leaves the store as it was
InternalWarm ==
    /\ cache.pc = "warm"
    /\ \/ cache' = [cache EXCEPT !.pc = "request"]
       \/ cache' = [cache EXCEPT !.pc = "request", !.warmed = TRUE,
                                 !.store = @ \cup {WarmerKey(cache.route, cache.id,
                                                             cache.user)}]
    /\ UNCHANGED <<brkVars, kvVars, req, batch, item, nItems, sem, polCache, ctr, ingests,
                   chainTasks, kvFaults, env, nrm, core, chain, tgt>>

\* a real GET of the path within the TTL, with or without the query string
\* page=1: the wrapper reads its key, returns the entry or runs the handler
\* and stores its result
RealRequest ==
    /\ cache.pc = "request"
    /\ \E xuser \in WarmUsers, query \in {<< >>, <<<<"page", "1">>>>}, fails \in BOOLEAN :
        LET key == HandlerKey(cache.route, cache.id, xuser, query)
            rq  == [user |-> xuser, query |-> query]
        IN  cache' =
                IF fails
                THEN [cache EXCEPT !.pc = "served", !.req = rq, !.got = "failed",
                                   !.handler = TRUE, !.store = @ \cup {key}]
                ELSE IF key \in cache.store
                THEN [cache EXCEPT !.pc = "served", !.req = rq, !.got = "hit"]
                ELSE [cache EXCEPT !.pc = "served", !.req = rq, !.got = "miss",
                                   !.handler = TRUE, !.store = @ \cup {key}]
    /\ UNCHANGED <<brkVars, kvVars, req, batch, item, nItems, sem, polCache, ctr, ingests,
                   chainTasks, kvFaults, env, nrm, core, chain, tgt>>

SpecWarm == WarmInit /\ [][InternalWarm \/ RealRequest]_vars

(***************************************************************************)
(* The targets of a batch (middleware.py, _prefetch 666-710 and            *)
(* _prefetch_one 791-950): which candidates of a policy answer become      *)
(* items, and how an item fetches. Paths are sequences of segments; scores *)
(* are in hundredths, times in milliseconds.                               *)
(***************************************************************************)
\* a segment of digits and a segment that is a UUID
IdSeg == "7"
UuidSeg == "3f2a"

\* RE_LAST_INT.search(src_path), RE_LAST_UUID.search(src_path): the first
\* such segment of the path, << >> when there is none
SearchSeg(path, seg) == IF \E i \in 1..Len(path) : path[i] = seg THEN <<seg>> ELSE << >>

\* '"{id}" in p'
Has(path, placeholder) == \E i \in 1..Len(path) : path[i] = placeholder

\* p.replace(placeholder, value)
Replace(path, placeholder, value) ==
    [i \in 1..Len(path) |-> IF path[i] = placeholder THEN value ELSE path[i]]

\* self.deny_re and self.deny_re.search(p): the deny regex of the deployment
\* names a segment, or is not set
DenySearch(deny, path) == deny # "" /\ \E i \in 1..Len(path) : path[i] = deny

\* seeded fault: a filter that lets every score pass
ScoreAlwaysPasses(score, min_score) == FALSE

\* "score < self.prefetch_min_score"
ScoreTooLow(score, min_score) == score < min_score

\* the loop over next_paths: the candidates that pass the score, the deny
\* regex on the template and the two placeholder tests
RECURSIVE Filtered(_, _, _)
Filtered(next_paths, src_path, deny) ==
    IF next_paths = << >> THEN << >>
    ELSE LET it   == Head(next_paths)
             rest == Filtered(Tail(next_paths), src_path, deny)
         IN  IF \/ ScoreTooLow(it.score, PrefetchMinScore)
                \/ DenySearch(deny, it.path)
                \/ (Has(it.path, "{id}") /\ SearchSeg(src_path, IdSeg) = << >>)
                \/ (Has(it.path, "{uuid}") /\ SearchSeg(src_path, UuidSeg) = << >>)
             THEN rest
             ELSE <<it>> \o rest

\* sorted(filtered, key = score, reverse = True): stable, equal scores keep
\* their order
RECURSIVE SortedByScore(_)
SortedByScore(s) ==
    IF s = << >> THEN << >>
    ELSE LET i == CHOOSE i \in 1..Len(s) :
                    /\ \A j \in 1..Len(s) : s[j].score <= s[i].score
                    /\ \A j \in 1..(i - 1) : s[j].score < s[i].score
         IN  <<s[i]>> \o SortedByScore(SubSeq(s, 1, i - 1) \o SubSeq(s, i + 1, Len(s)))

\* _prefetch 666-710: the targets of the batch, << >> when it returns early
PrefetchTargets(answer, src_path, deny, max_items_cap) ==
    LET max_prefetch == IF max_items_cap > 0 THEN Min(answer.max_prefetch, max_items_cap)
                        ELSE answer.max_prefetch
        sorted == SortedByScore(Filtered(answer.next_paths, src_path, deny))
    IN  IF answer.max_prefetch <= 0 \/ answer.next_paths = << >> THEN << >>
        ELSE SubSeq(sorted, 1, Min(max_prefetch, Len(sorted)))

\* per_req_timeout = min(0.22, max(0.09, (budget_ms / 1000) / max(1, max_prefetch)))
PerRequestTimeout(budget_ms, max_prefetch) ==
    Min(220, Max(90, budget_ms \div Max(1, max_prefetch)))

\* an item that has not run
NoRun(it) ==
    [target |-> it, path |-> << >>, reason |-> "none", locked |-> FALSE, intent |-> FALSE,
     fetch |-> "none", headers |-> << >>, timeout |-> 0]

\* _prefetch_one 796-829: the checks before the lock; the concrete path, or
\* the reason the item returns with
BeforeLock(it, src_path, deny, base_urls) ==
    LET id   == SearchSeg(src_path, IdSeg)
        uuid == SearchSeg(src_path, UuidSeg)
        p1   == IF Has(it.path, "{id}") /\ id # << >>
                THEN Replace(it.path, "{id}", id[1]) ELSE it.path
        p2   == IF Has(p1, "{uuid}") /\ uuid # << >>
                THEN Replace(p1, "{uuid}", uuid[1]) ELSE p1
    IN  IF DenySearch(deny, it.path) THEN [reason |-> "DeniedByRegexTpl", path |-> << >>]
        ELSE IF Has(it.path, "{id}") /\ id = << >>
        THEN [reason |-> "NoIdInSrcPath", path |-> << >>]
        ELSE IF Has(p1, "{uuid}") /\ uuid = << >>
        THEN [reason |-> "NoUuidInSrcPath", path |-> << >>]
        ELSE IF DenySearch(deny, p2) THEN [reason |-> "DeniedByRegex", path |-> p2]
        ELSE IF it.service \notin base_urls THEN [reason |-> "NoBaseUrl", path |-> p2]
        ELSE [reason |-> "none", path |-> p2]

\* seeded fault: the warmer of the template is used for any service
WarmerOfAnyService(it, warmers) == it.path \in warmers

\* "internal_fn is not None": the target is of the own service and a warmer
\* is registered for its template
InternalFn(it, warmers) == it.service = Self /\ it.path \in warmers

\* _prefetch_one for one target. stop is where the environment ends the item
\* between the lock and the fetch ("none": it reaches the fetch), remain the
\* time left to the deadline at the fetch
prefetch_one(it, src_path, user, deny, base_urls, warmers, per_request_timeout, stop, remain) ==
    LET pre == BeforeLock(it, src_path, deny, base_urls)
        run == [NoRun(it) EXCEPT !.path = pre.path]
    IN  IF pre.reason # "none" THEN [run EXCEPT !.reason = pre.reason]
        ELSE IF stop = "Dedup" THEN [run EXCEPT !.reason = stop]
        ELSE IF stop # "none"
        THEN [run EXCEPT !.reason = stop, !.locked = TRUE, !.intent = TRUE]
        ELSE IF InternalFn(it, warmers)
        THEN [run EXCEPT !.locked = TRUE, !.intent = TRUE, !.fetch = "internal",
                         !.timeout = Min(remain, per_request_timeout)]
        ELSE [run EXCEPT !.locked = TRUE, !.intent = TRUE, !.fetch = "http",
                         !.headers = ("x-user" :> user @@ "x-prefetch" :> "1"),
                         !.timeout = per_request_timeout]

(***************************************************************************)
(* SpecTargets: one policy answer, planned and dispatched item by item     *)
(***************************************************************************)
\* the candidates the policy engine may name
Candidates ==
    [service : {Self}, path : {<<"orders", "{id}">>, <<"b">>, <<"admin">>},
     score : {10, 25, 60}]
    \cup [service : {"svc_t"}, path : {<<"files", "{uuid}">>}, score : {25, 60}]

\* the source paths of the batch
SrcPaths == {<<"a">>, <<"orders", IdSeg>>, <<"files", UuidSeg>>}

\* the deployments: the deny regex, the services with a base URL, the
\* templates with a registered warmer, ANTICIP8_PREFETCH_MAX_ITEMS
Deployments ==
    {[deny |-> "", base_urls |-> {Self, "svc_t"}, warmers |-> {}, max_items_cap |-> 0],
     [deny |-> "admin", base_urls |-> {Self, "svc_t"}, warmers |-> {<<"orders", "{id}">>},
      max_items_cap |-> 0],
     [deny |-> IdSeg, base_urls |-> {"svc_t"}, warmers |-> {<<"b">>}, max_items_cap |-> 1],
     [deny |-> "", base_urls |-> {"svc_t"},
      warmers |-> {<<"orders", "{id}">>, <<"files", "{uuid}">>}, max_items_cap |-> 0]}

TargetsInit ==
    /\ Parked
    /\ nrm = Unused
    /\ core = Unused
    /\ chain = Unused
    /\ cache = Unused
    /\ \E d \in Deployments, src \in SrcPaths, mp \in {0, 1, PolicyMaxPrefetch},
          np \in UNION {[1..n -> Candidates] : n \in 0..MaxCands} :
        tgt = [pc |-> "answer", cfg |-> d, src |-> src,
               answer |-> [next_paths |-> np, max_prefetch |-> mp],
               targets |-> << >>, runs |-> << >>]

\* _prefetch from the policy answer to the targets
TargetsPlan ==
    /\ tgt.pc = "answer"
    /\ LET targets == PrefetchTargets(tgt.answer, tgt.src, tgt.cfg.deny,
                                      tgt.cfg.max_items_cap)
       IN  tgt' = [tgt EXCEPT !.pc = IF targets = << >> THEN "done" ELSE "dispatch",
                              !.targets = targets]
    /\ UNCHANGED <<brkVars, kvVars, req, batch, item, nItems, sem, polCache, ctr, ingests,
                   chainTasks, kvFaults, env, nrm, core, chain, cache>>

\* the dispatch loop creates the item of the next target and the item runs
TargetsItem ==
    /\ tgt.pc = "dispatch"
    /\ \E stop \in {"none", "Dedup", "DeadlineBeforeSem", "DeadlineInsideSem",
                    "DeadlineTooClose"},
          remain \in {80, 120} :
        LET run  == prefetch_one(tgt.targets[Len(tgt.runs) + 1], tgt.src, "u1",
                                 tgt.cfg.deny, tgt.cfg.base_urls, tgt.cfg.warmers,
                                 PerRequestTimeout(120, tgt.answer.max_prefetch),
                                 stop, remain)
            runs == Append(tgt.runs, run)
        IN  tgt' = [tgt EXCEPT !.runs = runs,
                               !.pc = IF Len(runs) = Len(tgt.targets) THEN "done"
                                      ELSE "dispatch"]
    /\ UNCHANGED <<brkVars, kvVars, req, batch, item, nItems, sem, polCache, ctr, ingests,
                   chainTasks, kvFaults, env, nrm, core, chain, cache>>

\* the dispatch loop breaks at its deadline check: the remaining targets get
\* no item
TargetsBreak ==
    /\ tgt.pc = "dispatch"
    /\ tgt' = [tgt EXCEPT !.pc = "done"]
    /\ UNCHANGED <<brkVars, kvVars, req, batch, item, nItems, sem, polCache, ctr, ingests,
                   chainTasks, kvFaults, env, nrm, core, chain, cache>>

SpecTargets == TargetsInit /\ [][TargetsPlan \/ TargetsItem \/ TargetsBreak]_vars

(***************************************************************************)
(* Properties of the middleware (Spec)                                     *)
(***************************************************************************)
\* the items of one key
SameKey(i, j) == i # j /\ item[i].key = item[j].key /\ item[i].key # NoKey

\* the task of item i exists and has not returned
Live(i) == item[i].pc \notin {"idle", "done"}

\* item i is past a SET NX that stored its token, and the key has not run out
Holds(i) == Live(i) /\ item[i].token = "held" /\ ~item[i].lost

\* C1 as stated: of two items for the same key that run concurrently, only one
\* performs the fetch.
C1_OneFetchOfTwo ==
    \A i, j \in Items :
        SameKey(i, j) /\ Live(i) /\ Live(j) => ~(item[i].fetched /\ item[j].fetched)

\* C1, amended: of the items for one key that run concurrently, at most one is
\* past a SET NX that stored its token on a key that has not run out since, and
\* the key holds that token; an item whose SET NX found the key present is
\* skipped as a dedup (the dedup-skip counter counts exactly these items) and
\* issues no fetch. Two concurrent items both fetch only if the acquire of one
\* of them failed open on a KV error or its key ran out.
C1_InflightDedup ==
    /\ \A i \in Items : Holds(i) => lock[item[i].key] = i
    /\ \A i, j \in Items : SameKey(i, j) => ~(Holds(i) /\ Holds(j))
    /\ \A i \in Items : item[i].why = "Dedup" => ~item[i].fetched /\ item[i].token = "none"
    /\ ctr["prefetch_dedup_skips"] = Cardinality({i \in Items : item[i].why = "Dedup"})
    /\ \A i, j \in Items :
          SameKey(i, j) /\ Live(i) /\ Live(j) /\ item[i].fetched /\ item[j].fetched
              => \E h \in {i, j} : item[h].token = "failopen" \/ item[h].lost

\* C1 witness: an item holds the key and has fetched while a second item for
\* the same key was skipped as a dedup
C1_Witness ==
    \E i, j \in Items :
        /\ SameKey(i, j)
        /\ Holds(i) /\ item[i].fetched
        /\ item[j].pc = "done" /\ item[j].why = "Dedup"
        /\ ctr["prefetch_dedup_skips"] = 1

\* the request is past its hit/miss accounting
Accounted(r) == req[r].pc \in {"sess_get", "sess_set", "handler", "started", "done"}
                /\ ~req[r].skipped

OnlyInc(r, incs) ==
    \A n \in CounterNames :
        req[r].inc[n] = IF n \in DOMAIN incs THEN incs[n] ELSE 0

\* C2: a request that arrives while the intent and the prefetched marker of its
\* key are both set (and nobody else writes them during its accounting) counts
\* one hit, one intent_seen, one prefetch_mark_ready and no miss, and when its
\* accounting finishes neither marker exists.
C2_HitOnceAndClean ==
    \A r \in Reqs :
        Accounted(r) /\ req[r].sawIntent /\ req[r].sawPf /\ ~req[r].disturbed
            => /\ req[r].outcome = "HIT"
               /\ OnlyInc(r, [prefetch_hits |-> 1, intent_seen |-> 1,
                              prefetch_mark_ready |-> 1])
               /\ req[r].pc = "sess_get" =>
                      /\ ReqKey(req[r].path) \notin intent
                      /\ ReqKey(req[r].path) \notin pf

\* C2 witness: the second request was a hit on the markers a speculation of
\* the first request left
C2_Witness ==
    /\ req[2].pc = "sess_get" /\ req[2].outcome = "HIT"
    /\ req[2].sawIntent /\ req[2].sawPf
    /\ \E i \in Items : item[i].batch = 1 /\ item[i].why = "OK"
                          /\ item[i].key = ReqKey(req[2].path)
    /\ ctr["prefetch_hits"] = 1

\* C3: a request that arrives while its key has no intent marker (and nobody
\* sets one during its accounting) increments intent_missing and nothing else,
\* and its accounting ends at the intent read: it issues no delete and no write.
C3_NoIntentNoVerdict ==
    \A r \in Reqs :
        Accounted(r) /\ ~req[r].sawIntent /\ ~req[r].disturbed
            => /\ req[r].outcome = "NO_INTENT"
               /\ OnlyInc(r, [intent_missing |-> 1])
               /\ req[r].acctAt = "intent"

\* C3 witness: a request on a key nobody speculated on has been accounted,
\* while a prefetched marker of another request's speculation exists
C3_Witness ==
    \E r \in Reqs :
        /\ req[r].pc = "sess_get" /\ ~req[r].sawIntent
        /\ req[r].path = "/a"
        /\ ctr["intent_missing"] = 2
        /\ pf # {}

\* C4 as stated: a request whose KV command failed before dispatch still has
\* its handler invoked; the failure does not end the request.
C4_FailOpenOnRequestPath ==
    \A r \in Reqs : req[r].kvFailed => req[r].pc # "faulted"

\* the request carries x-prefetch: 1 or its path is under a noise prefix
Bypassed(rq) == rq.pc # "new" /\ (rq.xprefetch \/ rq.path = NoisePath)

\* C5: accounting is over when the handler is dispatched; the batch of a request
\* exists only once its handler has emitted the response start (with a status
\* below 400), and at most one batch is created per request; once the response
\* has started its end never waits for the batch.
C5_RequestOrdering ==
    \A r \in Reqs :
        /\ req[r].dispatched /\ ~Bypassed(req[r]) => req[r].acctAt # "none"
        /\ batch[r].pc # "none" => /\ req[r].pc \in {"started", "done"}
                                   /\ req[r].status < 400
        /\ req[r].pc \in {"new", "acct_intent", "acct_pf", "acct_del_hit", "acct_del_miss",
                          "sess_get", "sess_set", "handler", "faulted"}
              => batch[r].pc = "none" /\ req[r].batches = 0
        /\ req[r].batches <= 1
        /\ req[r].pc = "started" => ENABLED HandlerBody(r)

\* C5 witness: a request has been answered while its batch is still waiting
\* for a speculative fetch
C5_Witness ==
    \E r \in Reqs :
        /\ req[r].pc = "done" /\ req[r].acctAt # "none" /\ req[r].batches = 1
        /\ batch[r].pc = "wait"
        /\ \E i \in Items : item[i].batch = r /\ item[i].pc = "fetch"

\* C6: the steps of a request that carries x-prefetch: 1 or whose path is under
\* a noise prefix go straight to the handler and change nothing else: no
\* counter, no marker, no session or chain window, no batch, no ingest.
C6_SkipLeavesStateAlone ==
    [][\A r \in Reqs :
          req'[r] # req[r] /\ Bypassed(req'[r])
              => /\ req'[r].pc \in {"handler", "started", "done"}
                 /\ UNCHANGED <<brkVars, kvVars, batch, item, nItems, sem, polCache, ctr,
                                ingests, chainTasks, kvFaults>>]_vars

\* C6 witness: a request with x-prefetch: 1 has been answered on a key whose
\* intent and prefetched markers are both still set
C6_Witness ==
    \E r \in Reqs :
        /\ req[r].pc = "done" /\ req[r].xprefetch
        /\ ReqKey(req[r].path) \in intent \cap pf
        /\ batch[r].pc = "none"

\* C7 as stated: an item that acquired the inflight lock has issued the release
\* script by the time its task ends, whatever the exit path.
C7_HolderReleasesOnExit ==
    \A i \in Items :
        item[i].pc = "done" /\ item[i].token = "held" => item[i].released

\* C8: the key of an inflight lock changes from the token of an item only by
\* that item's own release or by its TTL; the release of any other item
\* (one whose lock ran out, or whose acquire failed open) leaves it in place.
C8_ReleaseOwnLockOnly ==
    [][\A k \in Keys :
          lock[k] # 0 /\ lock'[k] # lock[k]
              => \/ item[lock[k]].pc = "release" /\ item'[lock[k]].pc = "done"
                 \/ ~item[lock[k]].lost /\ item'[lock[k]].lost]_vars

\* C8 witness: an item whose key ran out or whose acquire failed open has run
\* its release script on the token of another item, which still holds the key
C8_Witness ==
    \E i, j \in Items :
        /\ SameKey(i, j)
        /\ item[i].pc = "done" /\ item[i].released /\ item[i].relSaw = j
        /\ item[i].lost \/ item[i].token = "failopen"
        /\ lock[item[j].key] = j /\ Holds(j)

(***************************************************************************)
(* The breaker law, read off the history of the reports                    *)
(***************************************************************************)
\* Report number n of the log trips a breaker configured as b: counting from the
\* report after the previous trip, at least trip_errors reports are no older
\* than window_sec at the time of report n.
RECURSIVE TripAt(_, _, _)
TripAt(b, log, n) ==
    LET prior == {m \in 1..(n - 1) : TripAt(b, log, m)}
        start == IF prior = {} THEN 0 ELSE CHOOSE m \in prior : \A q \in prior : q <= m
        inWin == {m \in (start + 1)..n : log[m] >= log[n] - b.window_sec}
    IN  Cardinality(inWin) >= b.trip_errors

Trips == {n \in 1..Len(brkLog) : TripAt(breaker, brkLog, n)}

LastTrip == IF Trips = {} THEN 0 ELSE CHOOSE m \in Trips : \A q \in Trips : q <= m

\* the reports the breaker still counts: those since the last trip that were no
\* older than window_sec at the last report
Counted ==
    SelectSeq(SubSeq(brkLog, LastTrip + 1, Len(brkLog)),
              LAMBDA t : t >= brkLog[Len(brkLog)] - breaker.window_sec)

\* C9: report_error keeps the timestamps no older than window_sec and the new
\* one, trips (cooloff_until = now + cooloff_sec, list cleared) when they number
\* trip_errors, and allow() is true exactly when now >= cooloff_until: the
\* breaker is closed while fewer than trip_errors errors fall within one window,
\* open for cooloff_sec after each trip, and allows again afterwards.
C9_BreakerLaw ==
    /\ breaker.errs = Counted
    /\ Len(breaker.errs) < breaker.trip_errors
    /\ breaker.cooloff_until =
          IF Trips = {} THEN 0 ELSE brkLog[LastTrip] + breaker.cooloff_sec
    /\ BreakerAllow(breaker, now) <=> now >= breaker.cooloff_until
    /\ BreakerAllow(breaker, now) <=>
          ~\E n \in Trips : brkLog[n] <= now /\ now < brkLog[n] + breaker.cooloff_sec

\* C9 witness: a breaker that needs two errors let an old error fall out of the
\* window, tripped later, and allows again after the cool-off
C9_Witness ==
    /\ breaker.trip_errors = 2
    /\ breaker.window_sec = 1
    /\ Len(brkLog) >= 3
    /\ brkLog[2] > brkLog[1] + breaker.window_sec
    /\ LastTrip = 3
    /\ now >= brkLog[3] + breaker.cooloff_sec
    /\ BreakerAllow(breaker, now)

\* C10: a batch that starts while the breaker is open ends at the gate: it makes
\* no policy call and launches no item, so it sets no intent marker, takes no
\* inflight lock and issues no fetch.
C10_OpenBreakerAbortsBatch ==
    \A b \in Reqs :
        batch[b].openAtGate
            => /\ batch[b].pc = "done" /\ batch[b].why = "Breaker"
               /\ batch[b].policyCalls = 0
               /\ \A i \in Items : item[i].batch # b

\* C10 witness: two failed fetches of the first batch tripped the breaker, and
\* the batch of the second request ended at the gate
C10_Witness ==
    /\ batch[2].openAtGate /\ batch[2].pc = "done"
    /\ ~BreakerAllow(breaker, now)
    /\ ctr["prefetch_errors"] = 2

(***************************************************************************)
(* Policy failures, fetch outcomes, budgets and empty answers (Spec)       *)
(***************************************************************************)
\* the breaker has never been told of an error
BreakerUntouched == breaker.errs = << >> /\ breaker.cooloff_until = 0

\* C11 (as stated): a batch whose policy call failed has ended, and the breaker
\* has been told of an error.
C11_PolicyFailureFeedsBreaker ==
    \A b \in Reqs :
        batch[b].policyFailed
            => /\ batch[b].pc = "done" /\ batch[b].why = "NoTargets"
               /\ ~BreakerUntouched

\* C12: a prefetched marker is written only by an item whose fetch returned a
\* status in 200..399; a fetch that ends in a timeout or connection error is
\* reported to the breaker in the same step and writes no marker, and a fetch
\* that ends in another status writes no marker.
C12_MarkOnlyAfterSuccess ==
    [][/\ \A k \in pf' \ pf :
            \E i \in Items :
                /\ item[i].pc = "mark" /\ item[i].key = k /\ item[i].fetched
                /\ item[i].status >= 200 /\ item[i].status < 400
       /\ \A i \in Items :
            (item[i].pc = "fetch" /\ item'[i].pc # "fetch" /\ ~item'[i].cancelled
                /\ ~(item'[i].status >= 200 /\ item'[i].status < 400))
            => /\ pf' = pf
               /\ item'[i].pc = "release"
               /\ item'[i].status = 0 => breaker' = BreakerReportError(breaker, now)]_vars

\* C12 witness: one fetch ended in an error and one in a 404; the breaker holds
\* the error and no marker exists
C12_Witness ==
    /\ \E i \in Items : item[i].pc = "done" /\ item[i].why = "Error" /\ item[i].status = 0
    /\ \E i \in Items : item[i].pc = "done" /\ item[i].why = "NoStatus" /\ item[i].status = 404
    /\ breaker.errs # << >>
    /\ pf = {}

\* the batch of the run planned with a budget equal to min_prefetch_window
BudgetIsWindow == env.budget = MinPrefetchWindow

BudgetBelowWindow == env.budget < MinPrefetchWindow

C15_EmptyAnswerNoSpeculation ==
    \A b \in Reqs :
        (batch[b].answer # NoAnswer
            /\ (batch[b].answer.max_prefetch <= 0 \/ batch[b].answer.next_paths = << >>))
        => /\ batch[b].pc = "done" /\ batch[b].why = "NoTargets"
           /\ \A i \in Items : item[i].batch # b
           /\ (\A c \in Reqs : c # b => batch[c].pc = "none")
                => (intent = {} /\ pf = {} /\ \A k \in Keys : lock[k] = 0)

\* C15 witness: the answer named a candidate with max_prefetch = 0
C15_Witness ==
    /\ batch[1].answer.max_prefetch = 0
    /\ batch[1].answer.next_paths # << >>
    /\ batch[1].pc = "done"
    /\ ~batch[1].policyFailed

(***************************************************************************)
(* The semaphore and the debounce with concurrent batches (SpecTwoBatches) *)
(***************************************************************************)
\* the items inside "async with self.prefetch_sem": their fetch is under way
\* or it returned and the marker is being written
InSem == {i \in Items : item[i].pc \in {"fetch", "mark"}}

\* C25: the items of all batches that are inside the semaphore are at most
\* prefetch_max_concurrency, and every permit that is not free is held by an
\* item inside the semaphore: an item that left it by a return, a deadline
\* skip, an error of the fetch or a cancellation has returned its permit.
C25_SemaphoreBound ==
    /\ Cardinality(InSem) <= PrefetchMaxConcurrency
    /\ sem >= 0
    /\ sem + Cardinality(InSem) = PrefetchMaxConcurrency

\* C25 witness: an item of one batch waits for a permit while an item of
\* another batch is fetching
C25_Witness ==
    \E i, j \in Items :
        /\ item[i].batch # item[j].batch
        /\ item[i].pc = "fetch"
        /\ item[j].pc = "sem"
        /\ sem = 0

\* the batches for source path p that went on to the policy lookup
Lookups(p) == {b \in Reqs : batch[b].src = p /\ batch[b].lookup}

\* the items launched by batch b
ItemsOf(b) == {i \in Items : item[i].batch = b}

\* C28 (as stated): of the batches for one source path that start within one
\* debounce TTL of each other, at most one goes on to the policy lookup.
C28_OneLookupPerSource ==
    \A p \in Paths : Cardinality(Lookups(p)) <= 1

\* C28 (amended): of the batches for one source path that start within one
\* debounce TTL of each other, at most one whose debounce SET NX was answered
\* goes on to the policy lookup (a batch whose SET raised goes on without the
\* debounce); a batch that found the key aborts with no policy call, no
\* intent marker and no fetch: it launches no item.
C28_PolicyDebounce ==
    /\ \A p \in Paths :
            Cardinality({b \in Lookups(p) : ~batch[b].debounceFailed}) <= 1
    /\ \A b \in Reqs :
            batch[b].why = "Debounce" =>
                /\ batch[b].pc = "done"
                /\ ~batch[b].lookup
                /\ batch[b].policyCalls = 0
                /\ ItemsOf(b) = {}
                /\ \E a \in Lookups(batch[b].src) : a # b

\* C28 witness: of two batches of concurrent requests for the same path, one
\* called the policy engine and the other aborted at the debounce
C28_Witness ==
    \E a, b \in Reqs :
        /\ a # b
        /\ batch[a].src = batch[b].src
        /\ batch[a].policyCalls = 1
        /\ batch[b].why = "Debounce"

(***************************************************************************)
(* The batch deadline (Spec)                                               *)
(***************************************************************************)
\* the pending items of batch b that are still running
NotDone(b) == batch[b].pending \ DoneItems(b)

\* C27 (as stated): once the deadline of a batch has expired while items of
\* it are still pending, whether the batch is suspended inside the dispatch
\* loop or after it, its step that cancels every one of them and increments
\* prefetch_budget_overrun is due; no pending item runs on uncancelled behind
\* a batch that cannot take that step.
C27_DeadlineCancelsPending ==
    \A b \in Reqs :
        /\ batch[b].pc \in {"loopwait", "wait"}
        /\ now >= batch[b].deadline
        /\ NotDone(b) # {}
        => ENABLED BatchWaitTimeout(b)

\* the same for the wait after the dispatch loop only
C27_DeadlineCancelsAfterLoop ==
    \A b \in Reqs :
        /\ batch[b].pc = "wait"
        /\ now >= batch[b].deadline
        /\ NotDone(b) # {}
        => ENABLED BatchWaitTimeout(b)

(***************************************************************************)
(* The ingest after the response (SpecSession)                             *)
(***************************************************************************)
\* the ingests emitted by request r
IngestsOf(r) == {e \in ingests : e.by = <<"req", r>>}

\* C26: once the final body of a request that was not skipped is sent, the
\* request has emitted exactly one ingest if the node of the session window it
\* read differs from its own node (an intra-service one when the services are
\* equal, a cross-service one otherwise), and none if the window was empty or
\* named its own node; the session window then holds its node (until the next
\* request writes it).
C26_OneIngestPerNewNode ==
    \A r \in Reqs :
        req[r].pc = "done" /\ ~req[r].skipped =>
            LET prev == req[r].prev
                cur  == [svc |-> Self, path |-> req[r].path]
            IN  /\ prev = NoSess \/ prev = cur => IngestsOf(r) = {}
                /\ prev # NoSess /\ prev # cur =>
                        IngestsOf(r) = {[kind |-> IF prev.svc = Self THEN "event" ELSE "edge",
                                         by |-> <<"req", r>>,
                                         from |-> <<prev.svc, prev.path>>,
                                         to |-> <<Self, req[r].path>>]}
                /\ (\A q \in Reqs : q > r => req[q].skipped \/ ~req[q].dispatched)
                        => sess = cur

(***************************************************************************)
(* Properties of the hit / miss counters (SpecGrace)                       *)
(***************************************************************************)
\* the accountings that have reached an outcome
Settled == {r \in Reqs : req[r].outcome # "none"}

\* the accountings that found the intent marker and have reached no outcome:
\* between two reads, asleep in the grace, or ended there by an error of the KV
Unsettled == {r \in Reqs : req[r].inc["intent_seen"] = 1 /\ req[r].outcome = "none"}

\* those of them that have not had the answer of the first marker read
Unmarked == {r \in Unsettled : req[r].inc["prefetch_mark_not_ready"] = 0}

\* the counters of the accounting
AcctCounters ==
    {"intent_missing", "intent_seen", "prefetch_mark_ready", "prefetch_mark_not_ready",
     "prefetch_hits", "prefetch_misses"}

\* what an accounting with the given outcome has added to the counters
OutcomeCounts(outcome) ==
    CASE outcome = "NO_INTENT" -> {"intent_missing"}
      [] outcome = "HIT" -> {"intent_seen", "prefetch_mark_ready", "prefetch_hits"}
      [] outcome = "HIT_RACE" -> {"intent_seen", "prefetch_mark_not_ready", "prefetch_hits"}
      [] outcome = "MISS" -> {"intent_seen", "prefetch_mark_not_ready", "prefetch_misses"}

\* C37 (as stated): in every reachable state intent_missing + intent_seen is
\* the number of completed accountings, intent_seen = prefetch_hits +
\* prefetch_misses, and prefetch_mark_ready + prefetch_mark_not_ready =
\* intent_seen.
C37_CounterConservation ==
    /\ ctr["intent_missing"] + ctr["intent_seen"] = Cardinality(Settled)
    /\ ctr["intent_seen"] = ctr["prefetch_hits"] + ctr["prefetch_misses"]
    /\ ctr["prefetch_mark_ready"] + ctr["prefetch_mark_not_ready"] = ctr["intent_seen"]

\* C37 (amended): every accounting that reaches an outcome reaches one of
\* NO_INTENT, HIT, HIT_RACE and MISS and has moved the counters of that
\* outcome by one each, and nothing else moves them; the three equalities
\* hold up to the accountings that found the intent marker and have reached
\* no outcome (in flight, or ended by an error of the KV), and exactly when
\* there is none of those.
C37_ConservationUpToUnsettled ==
    /\ \A r \in Settled :
          /\ req[r].outcome \in {"NO_INTENT", "HIT", "HIT_RACE", "MISS"}
          /\ \A n \in AcctCounters :
                req[r].inc[n] = IF n \in OutcomeCounts(req[r].outcome) THEN 1 ELSE 0
    /\ \A n \in AcctCounters :
          ctr[n] = Cardinality({r \in Reqs : req[r].inc[n] = 1})
    /\ \A r \in Reqs, n \in AcctCounters : req[r].inc[n] \in {0, 1}
    /\ ctr["intent_missing"] + ctr["intent_seen"]
          = Cardinality(Settled) + Cardinality(Unsettled)
    /\ ctr["intent_seen"]
          = ctr["prefetch_hits"] + ctr["prefetch_misses"] + Cardinality(Unsettled)
    /\ ctr["prefetch_mark_ready"] + ctr["prefetch_mark_not_ready"]
          = ctr["intent_seen"] - Cardinality(Unmarked)
    /\ Unsettled = {} <=> C37_CounterConservation

\* one accounting ended as NO_INTENT and one as HIT_RACE, both are complete,
\* and the counters read 1 missing, 1 seen, 1 not ready, 1 hit, no miss
C37_Witness ==
    /\ \E r \in Reqs : req[r].outcome = "NO_INTENT"
    /\ \E r \in Reqs : req[r].outcome = "HIT_RACE" /\ req[r].pc = "done"
    /\ Unsettled = {}
    /\ ctr["intent_missing"] = 1 /\ ctr["intent_seen"] = 1
    /\ ctr["prefetch_mark_not_ready"] = 1 /\ ctr["prefetch_hits"] = 1
    /\ ctr["prefetch_misses"] = 0

(***************************************************************************)
(* Properties of the policy cache and of aborted items (Spec)              *)
(***************************************************************************)
\* C39: the policy cache only ever holds answers of the policy engine: the
\* step of a batch whose policy call fails stores nothing under its source
\* path (so that a later batch within the TTL calls the engine again).
C39_FailedCallStoresNothing ==
    [][\A b \in Reqs :
        (batch[b].pc = "policy" /\ batch'[b].pc # "policy" /\ batch'[b].policyFailed)
            => polCache'[batch[b].src] = polCache[batch[b].src]]_vars

\* the item returned at one of the three deadline checks that follow the
\* intent setex, before any fetch
AbortedAfterIntent(i) ==
    /\ item[i].pc = "done"
    /\ item[i].why \in {"DeadlineBeforeSem", "DeadlineInsideSem", "DeadlineTooClose"}
    /\ ~item[i].fetched

C38_OneHitPerSpeculation ==
    /\ ctr["prefetch_hits"] <= 1
    /\ Cardinality({r \in Reqs : req[r].outcome = "HIT"}) <= 1

(***************************************************************************)
(* Properties of warmers and handlers (SpecWarm)                           *)
(***************************************************************************)
\* a real request for the warmed path, without a query string, of the user
\* of the warm when the entry varies by user, was served after a successful
\* warm by a cache that answered
ServedAfterWarm ==
    /\ cache.pc = "served" /\ cache.warmed
    /\ cache.req.query = << >>
    /\ cache.route.vary_user => cache.req.user = cache.user
    /\ cache.got # "failed"

\* C36: for every concrete path whose template has a registered warmer, the
\* key the warmer writes is the key the wrapped handler of the path reads
\* (same user when the entry varies by user), so the real request that
\* follows a successful warm is served from the cache and the handler does
\* not run.
C36_WarmerHandlerKeyAgreement ==
    ServedAfterWarm =>
        /\ WarmerKey(cache.route, cache.id, cache.user)
              = HandlerKey(cache.route, cache.id, cache.req.user, cache.req.query)
        /\ cache.got = "hit"
        /\ ~cache.handler

\* the same for the routes without a path parameter whose warmer passes no
\* query parameters
C36_AgreementWithoutParams ==
    (ServedAfterWarm /\ cache.route.param = "" /\ cache.route.warm_qp = << >>) =>
        /\ WarmerKey(cache.route, cache.id, cache.user)
              = HandlerKey(cache.route, cache.id, cache.req.user, cache.req.query)
        /\ cache.got = "hit"
        /\ ~cache.handler

(***************************************************************************)
(* Properties of malformed similarity rows (SpecCoreRows)                  *)
(***************************************************************************)
\* the last call was a query of the node whose similarity row is not a list
\* of objects
MalformedRowQueried ==
    /\ core.call.name = "policy"
    /\ norm_path(core.call.from) = CorePath.a
    /\ core.raw.shape \in {"text", "object", "scalars"}

\* C34: a malformed similarity row (not JSON, a JSON object instead of a
\* list, a list whose elements are no objects) is treated as an empty row:
\* policy_next answers, ranking by Markov probability alone.
C34_MalformedRowIsEmpty ==
    MalformedRowQueried =>
        /\ DOMAIN core.resp = {"next_paths", "max_prefetch", "max_prefetch_time_ms"}
        /\ core.resp \in policy_next(core.h, Rows.none, Self, core.call.from,
                                     core.call.limit)

\* the same for a row that is not JSON at all
C34_NonJsonRowIsEmpty ==
    (MalformedRowQueried /\ core.raw.shape = "text") =>
        /\ DOMAIN core.resp = {"next_paths", "max_prefetch", "max_prefetch_time_ms"}
        /\ core.resp \in policy_next(core.h, Rows.none, Self, core.call.from,
                                     core.call.limit)

(***************************************************************************)
(* Properties of the race grace (SpecGrace)                                *)
(***************************************************************************)
\* the accounting of request r returned from the KV command it was waiting for
AcctStep(r, from) == req[r].pc = from /\ req'[r].pc \notin {from, "faulted"}

\* C33: a real request that finds the intent marker but no prefetched marker
\* sleeps min(grace_ms, grace_max_ms) when grace_ms > 0 and reads the marker
\* again: a marker set in the meantime gives HIT_RACE (hit counter +1, miss
\* counter unchanged, both markers deleted), no marker gives MISS (miss counter
\* +1, intent deleted); with grace_ms = 0 the outcome is MISS without a wait.
C33_RaceGrace ==
    [][\A r \in Reqs :
        LET k == ReqKey(req[r].path)
        IN  /\ (AcctStep(r, "acct_pf") /\ k \notin pf) =>
                  IF env.grace > 0
                  THEN /\ req'[r].pc = "acct_grace"
                       /\ req'[r].wake = now + (IF env.grace <= GraceMax THEN env.grace
                                                ELSE GraceMax)
                       /\ req'[r].outcome = "none"
                       /\ ctr'["prefetch_hits"] = ctr["prefetch_hits"]
                       /\ ctr'["prefetch_misses"] = ctr["prefetch_misses"]
                  ELSE /\ req'[r].pc = "acct_del_miss" /\ req'[r].outcome = "MISS"
                       /\ ctr'["prefetch_hits"] = ctr["prefetch_hits"]
                       /\ ctr'["prefetch_misses"] = ctr["prefetch_misses"] + 1
            /\ AcctStep(r, "acct_grace") =>
                  /\ env.grace > 0
                  /\ now >= req[r].wake
                  /\ IF k \in pf
                     THEN /\ req'[r].pc = "acct_del_hit" /\ req'[r].outcome = "HIT_RACE"
                          /\ ctr'["prefetch_hits"] = ctr["prefetch_hits"] + 1
                          /\ ctr'["prefetch_misses"] = ctr["prefetch_misses"]
                     ELSE /\ req'[r].pc = "acct_del_miss" /\ req'[r].outcome = "MISS"
                          /\ ctr'["prefetch_hits"] = ctr["prefetch_hits"]
                          /\ ctr'["prefetch_misses"] = ctr["prefetch_misses"] + 1
            /\ (AcctStep(r, "acct_del_hit") /\ req[r].outcome = "HIT_RACE") =>
                  (k \notin intent' /\ k \notin pf')
            /\ AcctStep(r, "acct_del_miss") => k \notin intent']_vars

\* a request slept through the grace, found the marker that the speculation had
\* set meanwhile, and was counted as one hit and no miss
C33_Witness ==
    \E r \in Reqs :
        /\ req[r].outcome = "HIT_RACE" /\ req[r].acctAt = "delete"
        /\ ~req[r].sawPf
        /\ req[r].inc["prefetch_hits"] = 1 /\ req[r].inc["prefetch_misses"] = 0
        /\ env.grace > GraceMax

(***************************************************************************)
(* Properties of the targets of a batch (SpecTargets)                      *)
(***************************************************************************)
\* the item came to the choice between warmer and HTTP: it was not ended by
\* the deny regex, a missing id, the dedup or its deadline
CameToFetch(run) ==
    run.reason \notin {"DeniedByRegexTpl", "NoIdInSrcPath", "NoUuidInSrcPath",
                       "DeniedByRegex", "Dedup", "DeadlineBeforeSem", "DeadlineInsideSem",
                       "DeadlineTooClose"}

\* the target of the item is of the own service and has a registered warmer
HasWarmer(run) == run.target.service = Self /\ run.target.path \in tgt.cfg.warmers

\* the item called the warmer, under min(remaining time, per-item timeout),
\* and sent no HTTP request
CalledWarmer(run) ==
    /\ run.fetch = "internal"
    /\ run.headers = << >>
    /\ run.timeout \in {Min(remain, PerRequestTimeout(120, tgt.answer.max_prefetch)) :
                          remain \in {80, 120}}

\* the item sent the HTTP GET with the headers x-user and x-prefetch: 1
SentGet(run) ==
    /\ run.fetch = "http"
    /\ run.headers = ("x-user" :> "u1" @@ "x-prefetch" :> "1")

\* C32 (as stated): an item whose target is of the own service and has a
\* registered warmer calls the warmer and sends no HTTP GET, whether or not a
\* base URL is configured for the own service; any other item sends the HTTP
\* GET with x-user and x-prefetch: 1 (to a service that has a base URL).
C32_InternalPathSelection ==
    \A k \in 1..Len(tgt.runs) :
        LET run == tgt.runs[k]
        IN  CameToFetch(run) =>
                IF HasWarmer(run) THEN CalledWarmer(run)
                ELSE run.target.service \in tgt.cfg.base_urls => SentGet(run)

\* the same for the items whose service has a base URL
C32_SelectionWithBaseUrl ==
    \A k \in 1..Len(tgt.runs) :
        LET run == tgt.runs[k]
        IN  CameToFetch(run) /\ run.target.service \in tgt.cfg.base_urls =>
                IF HasWarmer(run) THEN CalledWarmer(run) ELSE SentGet(run)

\* the runs that took the lock, set the intent marker or issued a fetch
Launched == {k \in 1..Len(tgt.runs) :
                tgt.runs[k].locked \/ tgt.runs[k].intent \/ tgt.runs[k].fetch # "none"}

\* the candidate has a score of at least min_score, its template does not
\* match the deny regex and the source path has a segment for each of its
\* placeholders
Eligible(c) ==
    /\ c.score >= PrefetchMinScore
    /\ ~(tgt.cfg.deny # "" /\ \E i \in 1..Len(c.path) : c.path[i] = tgt.cfg.deny)
    /\ (\E i \in 1..Len(c.path) : c.path[i] = "{id}")
          => \E i \in 1..Len(tgt.src) : tgt.src[i] = IdSeg
    /\ (\E i \in 1..Len(c.path) : c.path[i] = "{uuid}")
          => \E i \in 1..Len(tgt.src) : tgt.src[i] = UuidSeg

\* C35: every target for which the batch takes a lock, sets the intent or
\* issues a fetch has a score of at least min_score, matches the deny regex
\* neither as a template nor as a concrete path, and is concretizable; the
\* batch launches at most max_prefetch items, and no eligible candidate that
\* was left out has a higher score than a launched one.
C35_FilterAndCap ==
    /\ \A k \in Launched :
          /\ Eligible(tgt.runs[k].target)
          /\ ~(tgt.cfg.deny # "" /\ \E i \in 1..Len(tgt.runs[k].path) :
                                        tgt.runs[k].path[i] = tgt.cfg.deny)
          /\ \A i \in 1..Len(tgt.runs[k].path) :
                tgt.runs[k].path[i] \notin {"{id}", "{uuid}"}
    /\ Cardinality(Launched) <= tgt.answer.max_prefetch
    /\ \A k \in Launched : \A j \in 1..Len(tgt.answer.next_paths) :
          LET c == tgt.answer.next_paths[j]
          IN  (Eligible(c) /\ c.score > tgt.runs[k].target.score)
                  => \E m \in 1..Len(tgt.targets) : tgt.targets[m] = c

\* of three candidates and max_prefetch = 1 the batch fetched the third: the
\* first is eligible with a lower score, the second scores as high but is denied
C35_Witness ==
    /\ tgt.pc = "done"
    /\ tgt.answer.max_prefetch = 1
    /\ Len(tgt.answer.next_paths) = 3
    /\ Len(tgt.runs) = 1
    /\ LET np  == tgt.answer.next_paths
           run == tgt.runs[1]
       IN  /\ run.fetch # "none" /\ run.locked /\ run.intent
           /\ run.target = np[3]
           /\ Eligible(np[1]) /\ np[1].score < np[3].score
           /\ ~Eligible(np[2]) /\ np[2].score >= np[3].score
           /\ Has(np[3].path, "{id}")

(***************************************************************************)
(* Properties of norm_path (SpecNorm)                                      *)
(***************************************************************************)
\* C16 (as stated): norm_path of the result of norm_path is that result.
C16_NormIdempotent ==
    nrm.pc = "twice" => nrm.twice = nrm.once

(***************************************************************************)
(* Properties of the policy engine (SpecCore)                              *)
(***************************************************************************)
\* the step is a call of an ingest endpoint
IngestStep == core'.ingested = core.ingested + 1

\* C17: a path with a noise prefix is its own norm_path; a call of an ingest
\* endpoint (event, edge, prefetch) whose from-path or to-path is noise answers
\* {ok, skipped} and leaves every hash as it was; policy_next for a noise path
\* answers with no next_paths and max_prefetch = 0.
C17_NoiseIsInert ==
    [][/\ \A p \in {core'.call.from, core'.call.to} :
            IsNoisePath(p) => norm_path(p) = p
       /\ (IngestStep /\ (IsNoisePath(core'.call.from) \/ IsNoisePath(core'.call.to)))
            => /\ core'.resp = [ok |-> TRUE, skipped |-> TRUE]
               /\ core'.h = core.h
       /\ (core'.call.name = "policy" /\ IsNoisePath(core'.call.from))
            => /\ core'.resp.next_paths = << >>
               /\ core'.resp.max_prefetch = 0]_vars

\* C17 witness: after an accepted ingest, a prefetch attempt towards a noise
\* path was skipped
C17_Witness ==
    /\ core.call.name = "prefetch"
    /\ ~IsNoisePath(core.call.from) /\ IsNoisePath(core.call.to)
    /\ core.resp.skipped
    /\ core.ingested = 2
    /\ DOMAIN core.h # {}

\* the templates ingested as real successors of template a (events and edges)
Learned(a) ==
    {norm_path(c.to) : c \in {x \in core.calls : /\ x.name \in {"event", "edge"}
                                                  /\ norm_path(x.from) = a
                                                  /\ ~IsNoisePath(norm_path(x.to))}}

\* the answer lists the destination b
Lists(resp, b) == \E i \in 1..Len(resp.next_paths) : resp.next_paths[i].path = b

ScoreOf(resp, b) ==
    resp.next_paths[CHOOSE i \in 1..Len(resp.next_paths) : resp.next_paths[i].path = b].score

Concrete(p) == \E i \in 1..Len(p) : p[i] \in Digits \cup {Uuid}

\* C19: once /orders/42/ -> /orders/42/items was ingested as an event,
\* policy_next for /orders/7 and for /orders/7/ returns the candidate
\* /orders/{id}/items; no hash is keyed by a path with a concrete id.
C19_TemplateClass ==
    /\ ([name |-> "event", from |-> CorePath.orders42Slash, to |-> CorePath.orders42Items]
                \in core.calls
            /\ core.call.name = "policy"
            /\ core.call.from \in {CorePath.orders7, CorePath.orders7Slash})
        => Lists(core.resp, <<"/", "orders", "/", "{id}", "/", "items">>)
    /\ \A kf \in DOMAIN core.h :
        /\ Len(kf[1]) = 3 => ~Concrete(kf[1][3])
        /\ IF kf[1][1] \in {"tot", "tot2", "ptot"} THEN ~Concrete(kf[2])
           ELSE IF kf[1][1] = "trans" THEN ~Concrete(kf[2])
           ELSE ~Concrete(kf[2][2])

\* C19 witness: after that one event, next(/orders/7/) is /orders/{id}/items
C19_Witness ==
    /\ core.calls = {[name |-> "event", from |-> CorePath.orders42Slash,
                      to |-> CorePath.orders42Items]}
    /\ core.call.name = "policy" /\ core.call.from = CorePath.orders7Slash
    /\ Len(core.resp.next_paths) = 1
    /\ core.resp.next_paths[1].path = <<"/", "orders", "/", "{id}", "/", "items">>
    /\ core.resp.next_paths[1].score.n > 0

\* C24: whatever read of Redis fails during policy_next, the query is
\* answered with a policy response (next_paths, max_prefetch,
\* max_prefetch_time_ms).
C24_ReadFailureIsNoData ==
    core.call.name = "policy" =>
        DOMAIN core.resp = {"next_paths", "max_prefetch", "max_prefetch_time_ms"}

(***************************************************************************)
(* The shape of the answer and self-loops (SpecCoreConfig)                 *)
(***************************************************************************)
\* the last call was policy_next for a path that is not noise
Answered == core.call.name = "policy" /\ ~IsNoisePath(norm_path(core.call.from))

\* the node of the query of the last call
QueryNode == <<Self, norm_path(core.call.from)>>

\* the destination of entry i of the answer
Dest(i) == <<core.resp.next_paths[i].service, core.resp.next_paths[i].path>>

\* the probabilities the tables give to destination d for the query node: the
\* intra map, the cross map and, when they are folded in, the prefetch attempts
TableProbs(d) ==
    LET p    == QueryNode[2]
        key1 == k_trans("trans", Self, p)
        key2 == k_trans("trans2", Self, p)
        keyp == k_trans("ptrans", Self, p)
        totp == HGet(core.h, k_total("ptot", Self), p)
    IN  {x \in
            {SmoothedProb(core.h, key1, p, t) :
                t \in {t \in Scored(core.h, key1, p) : d = <<Self, t>>}}
            \cup {SmoothedProb(core.h, key2, QueryNode, e) :
                    e \in {e \in Scored(core.h, key2, QueryNode) : e = d}}
            \cup {Frac(core.h[<<keyp, e>>] * PREFETCH_ATTEMPT_WEIGHT, totp * 100) :
                    e \in {e \in HGetAll(core.h, keyp) :
                              e = d /\ core.allow /\ totp > 0 /\ core.h[<<keyp, e>>] > 0}} :
         AboveMinProb(x)}

\* the greatest of a set of fractions, 0 when there is none
Greatest(S) ==
    IF S = {} THEN Frac(0, 1) ELSE CHOOSE x \in S : \A y \in S : ~FracLess(x, y)

\* the scores computed for destination d: its probabilities when the node has
\* no similarity row; with a row, alpha * cos + (1 - alpha) * prob for every
\* entry of the row that names d (the entries for the query node itself are
\* dropped) and (1 - alpha) * prob when a table names d
SignalScores(d) ==
    LET cands == get_i2v_candidates(core.i2v, Self, QueryNode[2])
        prob  == Greatest(TableProbs(d))
    IN  IF cands = << >> THEN TableProbs(d)
        ELSE {Hybrid(cands[j].cos, prob) :
                j \in {j \in 1..Len(cands) :
                          cands[j].item = d /\ ~(DROP_SELF_LOOPS /\ d = QueryNode)}}
             \cup {Frac((100 - I2V_ALPHA) * prob.n, 100 * prob.d) :
                     x \in {x \in {1} : TableProbs(d) # {}}}

\* C29: the answer to a query that is not noise has at most max(0, limit)
\* entries, in non-increasing order of score, no two for the same
\* (service, template); the score of an entry is the greatest of the scores
\* computed for its destination (the greater of the probabilities of the intra
\* map, the cross map and the prefetch attempts; with a similarity row the
\* greater of the hybrid scores); max_prefetch and max_prefetch_time_ms are
\* MAX_PREFETCH (2) and PREFETCH_BUDGET_MS (120 ms).
C29_AnswerShape ==
    Answered =>
        LET np == core.resp.next_paths
        IN  /\ Len(np) <= Max(0, core.call.limit)
            /\ \A i \in 1..(Len(np) - 1) : ~FracLess(np[i].score, np[i + 1].score)
            /\ \A i, j \in 1..Len(np) : i # j => Dest(i) # Dest(j)
            /\ \A i \in 1..Len(np) :
                    /\ SignalScores(Dest(i)) # {}
                    /\ np[i].score = Greatest(SignalScores(Dest(i)))
            /\ core.resp.max_prefetch = PolicyMaxPrefetch
            /\ core.resp.max_prefetch_time_ms = PolicyBudget

\* C29 witness: the intra map and the cross map give different probabilities
\* to a destination of the answer, and a limit of 1 cut the answer short
C29_Witness ==
    /\ Answered
    /\ core.call.limit = 1
    /\ Len(core.resp.next_paths) = 1
    /\ Cardinality(TableProbs(Dest(1))) = 2
    /\ \E d \in {Self} \X core.paths : d # Dest(1) /\ TableProbs(d) # {}

\* C30 (as stated): no answer of policy_next names the node of the query
\* itself, whatever events, edges and prefetch attempts were ingested and
\* whether or not prefetch attempts are folded into the policy.
C30_NoSelfLoopReturned ==
    Answered => \A i \in 1..Len(core.resp.next_paths) : Dest(i) # QueryNode

\* the same while prefetch attempts are not folded into the policy
C30_NoSelfLoopWithoutAttempts ==
    Answered /\ ~core.allow => \A i \in 1..Len(core.resp.next_paths) : Dest(i) # QueryNode

(***************************************************************************)
(* Properties of the chain log (SpecChain)                                 *)
(***************************************************************************)
ChainNodes == {step_key(Self, k) : k \in ChainKeys}

\* the positions of the visits where x is followed by y, and by y and then z
Pairs(x, y) ==
    {i \in 1..(Len(chain.visits) - 1) : chain.visits[i] = x /\ chain.visits[i + 1] = y}
Triples(x, y, z) ==
    {i \in 1..(Len(chain.visits) - 2) :
        chain.visits[i] = x /\ chain.visits[i + 1] = y /\ chain.visits[i + 2] = z}

\* C20: when the log_step of every visit has returned, the global bigram
\* counter of X -> Y is the number of adjacent visits X, Y with X # Y, the global
\* trigram counter of X -> Y -> Z is the number of adjacent visits X, Y, Z with
\* X # Y and Y # Z, and the counters of the user are the same.
C20_ChainCounters ==
    chain.pc = "idle"
        => \A x \in ChainNodes, y \in ChainNodes :
            /\ ZScore(chain.z, <<"top", 2>>, <<x, y>>)
                    = (IF x # y THEN Cardinality(Pairs(x, y)) ELSE 0)
            /\ ZScore(chain.z, <<"u", ChainUser, "top", 2>>, <<x, y>>)
                    = ZScore(chain.z, <<"top", 2>>, <<x, y>>)
            /\ \A z \in ChainNodes :
                /\ ZScore(chain.z, <<"top", 3>>, <<x, y, z>>)
                        = (IF x # y /\ y # z THEN Cardinality(Triples(x, y, z)) ELSE 0)
                /\ ZScore(chain.z, <<"u", ChainUser, "top", 3>>, <<x, y, z>>)
                        = ZScore(chain.z, <<"top", 3>>, <<x, y, z>>)

\* C20 witness: after the visits A, B, A, B, A the counters are A -> B = 2,
\* B -> A = 2, A -> B -> A = 2 and B -> A -> B = 1
C20_Witness ==
    LET a == <<Self, "A">>
        b == <<Self, "B">>
    IN  /\ chain.pc = "idle"
        /\ chain.visits = <<a, b, a, b, a>>
        /\ ZScore(chain.z, <<"top", 2>>, <<a, b>>) = 2
        /\ ZScore(chain.z, <<"top", 2>>, <<b, a>>) = 2
        /\ ZScore(chain.z, <<"top", 3>>, <<a, b, a>>) = 2
        /\ ZScore(chain.z, <<"top", 3>>, <<b, a, b>>) = 1

\* C31 (as stated): every log_step that succeeds for a user whose window was
\* (prev, last) leaves the window (old last, cur); for a fresh user, whose
\* window was empty, that is (empty, cur).
C31_WindowShift ==
    [][(chain.pc = "read" /\ chain'.pc = "idle" /\ chain'.outcome = "returned")
            => (chain'.last = chain.cur /\ chain'.prev = chain.last)]_vars

\* the same for a user whose window has a last node
C31_WindowShiftAfterFirst ==
    [][(chain.pc = "read" /\ chain'.pc = "idle" /\ chain'.outcome = "returned"
            /\ chain.last # NoStep)
            => (chain'.last = chain.cur /\ chain'.prev = chain.last)]_vars

\* C21: a failure of the multi-get or of the pipeline inside log_step never
\* leaves log_step as an exception, and the response of every visit is sent
\* whether or not its log_step failed.
C21_ChainLogNeverFaults ==
    /\ [](chain.outcome # "raised")
    /\ []<>(chain.answered = Len(chain.visits))

\* C21 witness: a log_step failed and the response of its visit was sent
C21_Witness ==
    /\ chain.faults > 0
    /\ chain.pc = "idle"
    /\ chain.answered = Len(chain.visits)

(***************************************************************************)
(* Properties of the response cache (SpecCache)                            *)
(***************************************************************************)
\* two dicts with the same items, whatever their insertion order
SameItems(d, e) == {d[i] : i \in DOMAIN d} = {e[i] : i \in DOMAIN e}

\* C22: two key inputs have the same cache key exactly when their canonical
\* JSON is equal, and that is exactly when they agree on the namespace, the
\* method up to case, the path, the items of route_params and of query_params
\* in any order, and on user_key when vary_user is set (both set or both
\* unset).
C22_CacheKeyLaw ==
    cache.pc = "compared" =>
        LET x == cache.x
            y == cache.y
        IN  /\ (cache.kx = cache.ky) <=> (stable_json(Base(x)) = stable_json(Base(y)))
            /\ (cache.kx = cache.ky) <=>
                    /\ x.namespace = y.namespace
                    /\ Upper(x.method) = Upper(y.method)
                    /\ x.path = y.path
                    /\ SameItems(x.route_params, y.route_params)
                    /\ SameItems(x.query_params, y.query_params)
                    /\ x.vary_user = y.vary_user
                    /\ x.vary_user => x.user_key = y.user_key

\* C22 witness: two inputs that differ in the insertion order of two query
\* parameters, in the case of the method and in the user, with the same key
C22_Witness ==
    /\ cache.pc = "compared"
    /\ cache.kx = cache.ky
    /\ Len(cache.x.query_params) = 2
    /\ cache.x.query_params # cache.y.query_params
    /\ cache.x.method # cache.y.method
    /\ cache.x.user_key # cache.y.user_key

\* C23: an invocation of the wrapper whose cache.get failed issues no setex.
C23_NoStoreAfterGetFailure ==
    cache.pc \in {"compute", "set", "done"} /\ cache.got = "failed" => cache.setex = 0

====
